---- MODULE Spec2Model ----
(***************************************************************************)
(* Model of the database tools of xyzzy/untangle:                          *)
(*   - the section planner and populator of dbtool_t (src/unnamed/part_000)*)
(*     as driven by main() of genmember (src/genmember.cc);                *)
(*   - the member engine of genmember: foundTreeMember, findHeadTail,      *)
(*     memberAlloc, memberFree, finaliseMembers (src/genmember.cc).        *)
(*   - tinyTree_t: normaliseQTF, basicNode, decodeSafe and decodeFast      *)
(*     (src/unnamed/part_002).                                             *)
(* The specifications share the variables: SpecPlan runs one invocation    *)
(* of main() from the section planner to the saved database; Spec runs     *)
(* the member engine on an owner-allocated store over successive builds;   *)
(* SpecEarlier runs the load loop of the earlier form of the engine        *)
(* (src/unnamed/part_001); SpecTree runs the node tree and its parsers.    *)
(***************************************************************************)
EXTENDS Integers, Sequences, FiniteSets, TLC

VARIABLES
    \* ---- planner / populator (dbtool_t, main) ----
    db,                 \* header of the input database (num / indexSize / interleave)
    opt,                \* user options of dbtool_t
    ctxUnsafe,          \* ctx.flags & MAGICMASK_UNSAFE
    copyOnWrite,        \* dbtool_t::copyOnWrite
    readOnlyMode,       \* dbtool_t::readOnlyMode
    hasPreset,          \* whether the metrics tables hold a preset for this run
    inheritSections,    \* dbtool_t::inheritSections
    rebuildSections,    \* dbtool_t::rebuildSections
    store,              \* sizes and occupancy of the output database
    allocFlags,         \* database_t::allocFlags of the output database
    ppc,                \* position of main()
    foreignWrites,      \* sections written while not owner-allocated
    \* ---- member engine (genmemberContext_t, database_t) ----
    members,            \* store.members[]
    memberIndex,        \* store.memberIndex[]
    signatures,         \* store.signatures[]: flags and firstMember
    pairs,              \* store.pairs[]: the member a pair id names
    freeMemberRoot,     \* head of the list of free members
    app,                \* counters and truncation state of genmemberContext_t
    pSafeScores,        \* size of the best member per signature
    optTruncate,        \* --truncate
    progress,           \* ctx.progress
    epc,                \* position of the build
    ret,                \* what the last call of foundTreeMember returned
    calls,              \* calls of foundTreeMember so far
    runs,               \* builds started so far
    guardFired,         \* the overflow guard has returned false in this build
    generation,         \* which foundTreeMember is built in: genmember.cc or its earlier form
    optText,            \* --text
    \* ---- node tree (tinyTree_t) ----
    tree,               \* tinyTree_t: count and the nodes N[NSTART .. count-1]
    treeFlags,          \* tinyTree_t::flags: MAGICMASK_QNTF, MAGICMASK_PARANOID
    tpc,                \* position of the caller of the tree
    twice,              \* what two calls with the same arguments returned
    treeCalls,          \* calls of normaliseQTF and of the parsers so far
    parse,              \* locals of decodeSafe / decodeFast
    \* ---- signals and the output file (main, sigintHandler, sigalrmHandler) ----
    tick,               \* ctx.tick
    optTimer,           \* ctx.opt_timer is not zero
    outputFile          \* the file arg_outputDatabase names

treeVars == <<tree, treeFlags, tpc, twice, treeCalls, parse>>

planOwn == <<db, opt, ctxUnsafe, copyOnWrite, hasPreset,
             inheritSections, rebuildSections, allocFlags, ppc, foreignWrites>>

engOwn == <<members, memberIndex, signatures, pairs, freeMemberRoot, app,
            pSafeScores, optTruncate, progress, epc, ret, calls, runs, guardFired,
            generation, optText>>

\* what the member engine leaves alone, and what the planner leaves alone
sigVars == <<tick, optTimer, outputFile>>

\* no timer runs and no output file is written
SignalIdle == tick = 0 /\ optTimer = FALSE /\ outputFile = "none"

planVars == <<planOwn, treeVars, sigVars>>
engVars == <<engOwn, treeVars>>

\* no tree is in use
TreeIdle ==
    /\ tree = <<>> /\ treeFlags = <<>> /\ tpc = "idle" /\ twice = <<>> /\ treeCalls = 0
    /\ parse = <<>>

vars == <<planVars, readOnlyMode, store, engVars>>

-----------------------------------------------------------------------------
(* Bounds of the model *)

\* occupancy of a non-empty data section of the input database
DbNum == 2
\* entry count of the metrics preset
MetricsNum == 3
\* largest member capacity (--maxmember) the engine is run with
MaxMember == 5
\* lines read from load files over all builds
MaxCalls == 5
\* builds run one after the other on the same database
MaxRuns == 2

-----------------------------------------------------------------------------
(* Sections and masks *)

DataSections  == {"SIGNATURE", "HINT", "IMPRINT", "MEMBER"}
IndexSections == {"SIGNATUREINDEX", "HINTINDEX", "IMPRINTINDEX", "MEMBERINDEX"}
PairSections  == {"PAIR", "PAIRINDEX"}
AllSections   == {"TRANSFORM"} \cup DataSections \cup IndexSections \cup PairSections

\* inheritSections as set by the constructor of dbtool_t
CtorInheritSections == {"TRANSFORM"} \cup DataSections \cup IndexSections

METRICS_DEFAULT_INTERLEAVE == 504
METRICS_DEFAULT_RATIO == 50
MAXTRANSFORM == 362880

\* interleave settings known to getMetricsInterleave()
AllowedInterleaves == {504, 120}
NumStored(il) == il
InterleaveStep(il) == MAXTRANSFORM \div il

IsPrime(n) == n > 1 /\ \A d \in 2..(n - 1) : n % d # 0
\* smallest prime >= n
nextPrime(n) == CHOOSE p \in n..(2 * n + 3) : IsPrime(p) /\ \A q \in n..(p - 1) : ~IsPrime(q)
\* ceil(n * (1 + percent/100))
raisePercent(n, percent) == n + ((n * percent + 99) \div 100)

\* index size a previous build gave to a section of `num` entries
SavedIndexSize(num) == IF num = 0 THEN 0 ELSE nextPrime((num * METRICS_DEFAULT_RATIO) \div 10)

-----------------------------------------------------------------------------
(* Input databases and options *)

DbStates ==
    { [numSignature |-> nSig,
       signatureIndexSize |-> IF saved THEN SavedIndexSize(nSig) ELSE 0,
       numHint |-> nHint,
       hintIndexSize |-> IF saved THEN SavedIndexSize(nHint) ELSE 0,
       interleave |-> IF saved /\ hasImp THEN il ELSE 0,
       numImprint |-> IF saved /\ hasImp THEN DbNum + 1 ELSE 0,
       imprintIndexSize |-> IF saved /\ hasImp THEN SavedIndexSize(DbNum + 1) ELSE 0,
       numMember |-> nMem,
       memberIndexSize |-> IF saved THEN SavedIndexSize(nMem) ELSE 0] :
      nSig \in {0, DbNum}, nHint \in {0, DbNum}, nMem \in {0, DbNum},
      hasImp \in BOOLEAN, saved \in BOOLEAN, il \in AllowedInterleaves }

\* a database without signatures has no hints, imprints or members
DbConsistent(d) ==
    d.numSignature = 0 => (d.numHint = 0 /\ d.numImprint = 0 /\ d.numMember = 0)

OptStates ==
    { [interleave |-> il, maxImprint |-> mi, imprintIndexSize |-> ii,
       maxMember |-> mm, memberIndexSize |-> mx,
       maxSignature |-> 0, signatureIndexSize |-> 0,
       maxHint |-> 0, hintIndexSize |-> 0,
       ratio10 |-> METRICS_DEFAULT_RATIO] :
      il \in {0} \cup AllowedInterleaves,
      mi \in {0, DbNum, DbNum + 3},
      ii \in {0, nextPrime(3)},
      mm \in {0, DbNum - 1, DbNum + 1},
      mx \in {0, nextPrime(3)} }

EmptyStore ==
    [maxSignature |-> 0, signatureIndexSize |-> 0, numSignature |-> 0,
     maxHint |-> 0, hintIndexSize |-> 0, numHint |-> 0,
     interleave |-> 0, interleaveStep |-> 0,
     maxImprint |-> 0, imprintIndexSize |-> 0, numImprint |-> 0,
     maxMember |-> 0, memberIndexSize |-> 0, numMember |-> 0]

-----------------------------------------------------------------------------
(* dbtool_t::sizeDatabaseSections                                           *)
(* A plan p is [inh, reb, st, fatal]: inheritSections, rebuildSections,     *)
(* the sizes written to the output database and whether ctx.fatal() fired.  *)

\* capacity of a data section: user / inherited / metrics / input / minimal
DataMax(optMax, inherited, dbNum, metricsNum) ==
    IF optMax # 0 THEN optMax
    ELSE IF inherited THEN dbNum
    ELSE IF ~readOnlyMode THEN raisePercent(metricsNum, 5)
    ELSE IF dbNum # 0 THEN dbNum
    ELSE 1

\* the metrics branch is taken and finds no preset
NoPresetFatal(optMax, inherited) ==
    optMax = 0 /\ ~inherited /\ ~readOnlyMode /\ ~hasPreset

\* inherit mask after sizing a data section
DataInherit(inh, sec, max, dbNum) ==
    IF max > dbNum THEN inh \ {sec}
    ELSE IF copyOnWrite THEN inh \cup {sec}
    ELSE inh

SizeData(p, sec, fld, optMax, dbNum, metricsNum) ==
    IF p.fatal THEN p
    ELSE IF NoPresetFatal(optMax, sec \in p.inh) THEN [p EXCEPT !.fatal = TRUE]
    ELSE LET max == DataMax(optMax, sec \in p.inh, dbNum, metricsNum)
         IN  [p EXCEPT !.st[fld] = max,
                       !.inh = DataInherit(p.inh, sec, max, dbNum)]

\* size of an index: user / inherited / ratio / input / minimal
IndexSize(optIdx, inherited, max, dbIdx) ==
    IF optIdx # 0 THEN optIdx
    ELSE IF inherited THEN dbIdx
    ELSE IF ~readOnlyMode THEN nextPrime((max * opt.ratio10) \div 10)
    ELSE IF dbIdx # 0 THEN dbIdx
    ELSE 1

\* variant of SizeIndex that resizes an index without scheduling its rebuild
SizeIndexKeep(p, isec, fld, max, optIdx, dbIdx) ==
    IF p.fatal THEN p
    ELSE IF max = 0 THEN [p EXCEPT !.st[fld] = 0]
    ELSE [p EXCEPT !.st[fld] = IndexSize(optIdx, isec \in p.inh, max, dbIdx)]

SizeIndex(p, isec, fld, max, optIdx, dbIdx) ==
    IF p.fatal THEN p
    ELSE IF max = 0 THEN [p EXCEPT !.st[fld] = 0]
    ELSE LET size == IndexSize(optIdx, isec \in p.inh, max, dbIdx)
             reb  == IF size # dbIdx THEN p.reb \cup {isec} ELSE p.reb
             inh  == IF size # dbIdx THEN p.inh \ reb
                     ELSE IF copyOnWrite THEN p.inh \cup {isec}
                     ELSE p.inh
         IN  [p EXCEPT !.st[fld] = size, !.reb = reb, !.inh = inh]

PlanStart(inh, reb) ==
    [inh |-> inh \ reb, reb |-> reb, st |-> EmptyStore, fatal |-> FALSE]

SizeSignature(p) ==
    SizeData(p, "SIGNATURE", "maxSignature", opt.maxSignature, db.numSignature, MetricsNum)

SizeSignatureIndex(p) ==
    SizeIndex(p, "SIGNATUREINDEX", "signatureIndexSize", p.st.maxSignature,
              opt.signatureIndexSize, db.signatureIndexSize)

SizeHint(p) ==
    SizeData(p, "HINT", "maxHint", opt.maxHint, db.numHint, MetricsNum)

SizeHintIndex(p) ==
    SizeIndex(p, "HINTINDEX", "hintIndexSize", p.st.maxHint,
              opt.hintIndexSize, db.hintIndexSize)

\* interleave is a setting: user / input / default, then normalised by the metrics table
SizeInterleave(p) ==
    IF p.fatal THEN p
    ELSE LET il == IF opt.interleave # 0 THEN opt.interleave
                   ELSE IF db.interleave # 0 THEN db.interleave
                   ELSE METRICS_DEFAULT_INTERLEAVE
         IN  IF il \notin AllowedInterleaves THEN [p EXCEPT !.fatal = TRUE]
             ELSE LET reb == IF NumStored(il) # db.interleave
                             THEN p.reb \cup {"IMPRINT"} ELSE p.reb
                      inh == IF NumStored(il) # db.interleave
                             THEN p.inh \ reb ELSE p.inh
                  IN  [p EXCEPT !.st.interleave = NumStored(il),
                                !.st.interleaveStep = InterleaveStep(il),
                                !.reb = reb, !.inh = inh]

\* variant of SizeImprint that falls back to the minimal interleave in every
\* read-only run, after the usability test against the input's interleave
SizeImprintLate(p) ==
    IF p.fatal THEN p
    ELSE IF p.st.maxSignature = 0
    THEN [p EXCEPT !.st.interleave = 0, !.st.maxImprint = 0]
    ELSE IF NoPresetFatal(opt.maxImprint, "IMPRINT" \in p.inh)
    THEN [p EXCEPT !.fatal = TRUE]
    ELSE LET max  == DataMax(opt.maxImprint, "IMPRINT" \in p.inh, db.numImprint, MetricsNum + 1)
             inh1 == DataInherit(p.inh, "IMPRINT", max, db.numImprint)
             unusable == db.numImprint = 0
         IN  [p EXCEPT !.st.interleave = IF readOnlyMode THEN 1 ELSE @,
                       !.st.maxImprint = max,
                       !.reb = IF unusable THEN p.reb \cup {"IMPRINT"} ELSE p.reb \ {"IMPRINT"},
                       !.inh = inh1]

\* imprints are sized as data and then treated as an index on the interleave
SizeImprint(p) ==
    IF p.fatal THEN p
    ELSE IF p.st.maxSignature = 0
    THEN [p EXCEPT !.st.interleave = 0, !.st.maxImprint = 0]
    ELSE IF NoPresetFatal(opt.maxImprint, "IMPRINT" \in p.inh)
    THEN [p EXCEPT !.fatal = TRUE]
    ELSE LET minimal == /\ opt.maxImprint = 0 /\ "IMPRINT" \notin p.inh
                        /\ readOnlyMode /\ db.numImprint = 0
             max  == DataMax(opt.maxImprint, "IMPRINT" \in p.inh, db.numImprint, MetricsNum + 1)
             il   == IF minimal THEN 1 ELSE p.st.interleave
             step == IF minimal THEN MAXTRANSFORM ELSE p.st.interleaveStep
             inh1 == DataInherit(p.inh, "IMPRINT", max, db.numImprint)
             unusable == db.numImprint = 0 \/ il # db.interleave
             reb  == IF unusable THEN p.reb \cup {"IMPRINT"} ELSE p.reb
             inh2 == IF unusable THEN inh1 \ reb
                     ELSE IF copyOnWrite THEN inh1 \cup {"IMPRINT"}
                     ELSE inh1
         IN  [p EXCEPT !.st.interleave = il, !.st.interleaveStep = step,
                       !.st.maxImprint = max, !.reb = reb, !.inh = inh2]

SizeImprintIndex(p) ==
    SizeIndex(p, "IMPRINTINDEX", "imprintIndexSize", p.st.maxImprint,
              opt.imprintIndexSize, db.imprintIndexSize)

SizeMember(p) ==
    SizeData(p, "MEMBER", "maxMember", opt.maxMember, db.numMember, MetricsNum)

SizeMemberIndex(p) ==
    SizeIndex(p, "MEMBERINDEX", "memberIndexSize", p.st.maxMember,
              opt.memberIndexSize, db.memberIndexSize)

\* final mask clean-up and the "output must fit input" checks
PlanEnd(p) ==
    IF p.fatal THEN p
    ELSE [p EXCEPT !.inh = p.inh \ p.reb,
                   !.fatal = \/ p.st.maxSignature < db.numSignature
                             \/ p.st.maxHint < db.numHint
                             \/ p.st.maxMember < db.numMember]

sizeDatabaseSections(inh, reb) ==
    LET sig == SizeSignatureIndex(SizeSignature(PlanStart(inh, reb)))
        hnt == SizeHintIndex(SizeHint(sig))
        imp == SizeImprintIndex(SizeImprint(SizeInterleave(hnt)))
        mem == SizeMemberIndex(SizeMember(imp))
    IN  PlanEnd(mem)

\* the member engine is not part of a planner run
EngineIdle ==
    /\ members = <<>> /\ memberIndex = <<>> /\ signatures = <<>> /\ pairs = <<>>
    /\ freeMemberRoot = 0 /\ app = <<>> /\ pSafeScores = <<>>
    /\ optTruncate = FALSE /\ progress = 0 /\ epc = "idle" /\ ret = "none"
    /\ calls = 0 /\ runs = 0 /\ guardFired = FALSE
    /\ generation = "current" /\ optText = "none"

InitPlan ==
    /\ EngineIdle
    /\ TreeIdle
    /\ tick = 0 /\ optTimer \in BOOLEAN /\ outputFile = "none"
    /\ db \in {d \in DbStates : DbConsistent(d)}
    /\ opt \in OptStates
    /\ ctxUnsafe \in BOOLEAN
    /\ copyOnWrite \in BOOLEAN
    /\ readOnlyMode \in BOOLEAN
    /\ hasPreset \in BOOLEAN
    /\ inheritSections = CtorInheritSections
    /\ rebuildSections = {}
    /\ store = EmptyStore
    /\ allocFlags = {}
    /\ ppc = "start"
    /\ foreignWrites = {}

-----------------------------------------------------------------------------
(* main() of genmember up to the start of the engine *)

\* sections a write touches although the output database does not own them
Foreign(secs) == secs \ allocFlags

\* main(): fix the masks for this tool and pass the signature size through
MainSetup ==
    /\ ppc = "start"
    /\ inheritSections' =
          ((inheritSections \ ({"SIGNATURE", "MEMBER", "MEMBERINDEX"} \cup PairSections))
              \ (IF db.signatureIndexSize = 0 THEN {"SIGNATUREINDEX"} ELSE {}))
              \ ((IF db.numImprint = 0 THEN {"IMPRINT"} ELSE {})
                  \cup (IF db.imprintIndexSize = 0 THEN {"IMPRINTINDEX"} ELSE {}))
    /\ rebuildSections' =
          (rebuildSections \cup (IF ctxUnsafe THEN {"IMPRINT", "IMPRINTINDEX"} ELSE {}))
              \cup {"SIGNATURE"}
    /\ opt' = IF ~readOnlyMode THEN [opt EXCEPT !.maxSignature = db.numSignature] ELSE opt
    /\ ppc' = "setup"
    /\ UNCHANGED <<db, ctxUnsafe, copyOnWrite, readOnlyMode, hasPreset, store,
                   allocFlags, foreignWrites, engVars, sigVars>>

\* app.sizeDatabaseSections(store, db, minNodes)
SizeDatabaseSections ==
    /\ ppc = "setup"
    /\ LET p == sizeDatabaseSections(inheritSections, rebuildSections)
       IN  /\ inheritSections' = p.inh
           /\ rebuildSections' = p.reb
           /\ store' = p.st
           /\ ppc' = IF p.fatal THEN "fatal" ELSE "sized"
    /\ UNCHANGED <<db, opt, ctxUnsafe, copyOnWrite, readOnlyMode, hasPreset,
                   allocFlags, foreignWrites, engVars, sigVars>>

\* entries the output database reserves for a section
SectionSize(sec) ==
    CASE sec = "SIGNATURE"      -> store.maxSignature
      [] sec = "SIGNATUREINDEX" -> store.signatureIndexSize
      [] sec = "HINT"           -> store.maxHint
      [] sec = "HINTINDEX"      -> store.hintIndexSize
      [] sec = "IMPRINT"        -> store.maxImprint
      [] sec = "IMPRINTINDEX"   -> store.imprintIndexSize
      [] sec = "MEMBER"         -> store.maxMember
      [] sec = "MEMBERINDEX"    -> store.memberIndexSize
      [] OTHER                  -> 1

\* sections store.create(inheritSections) allocates: the non-inherited, non-empty ones
CreateAllocates == {sec \in AllSections \ inheritSections : SectionSize(sec) > 0}

\* occupancy of a data section after create(): an allocated section holds
\* its reserved entry
CreateNum(sec) == IF sec \in CreateAllocates THEN 1 ELSE 0

\* store.create(inheritSections)
StoreCreate ==
    /\ ppc = "sized"
    /\ allocFlags' = CreateAllocates
    /\ store' = [store EXCEPT !.numSignature = CreateNum("SIGNATURE"),
                              !.numHint = CreateNum("HINT"),
                              !.numImprint = CreateNum("IMPRINT"),
                              !.numMember = CreateNum("MEMBER")]
    /\ ppc' = "created"
    /\ UNCHANGED <<db, opt, ctxUnsafe, copyOnWrite, readOnlyMode, hasPreset,
                   inheritSections, rebuildSections, foreignWrites, engVars, sigVars>>

\* the branch populateDatabaseSections() takes for a data section
DataCase(sec, max, dbNum) ==
    IF max = 0 THEN "null"
    ELSE IF sec \in inheritSections THEN "inherit"
    ELSE IF dbNum = 0 THEN "empty"
    ELSE IF max <= dbNum /\ copyOnWrite THEN "alias"
    ELSE IF sec \notin rebuildSections THEN "copy"
    ELSE "rebuild"

\* the branch populateDatabaseSections() takes for an index
IndexCase(isec, max, dbIdx) ==
    IF max = 0 THEN "null"
    ELSE IF isec \in inheritSections THEN "inherit"
    ELSE IF isec \in rebuildSections THEN "rebuild"
    ELSE IF dbIdx = 0 THEN "empty"
    ELSE IF copyOnWrite THEN "alias"
    ELSE "copy"

\* populate one data section whose occupancy is cur: [ok, num] with ok = no
\* assertion failed; a section to be rebuilt is left as create() made it
PopulateData(sec, max, dbNum, cur) ==
    LET c == DataCase(sec, max, dbNum)
    IN  CASE c = "null"    -> [ok |-> TRUE, num |-> cur]
          [] c = "inherit" -> [ok |-> sec \notin allocFlags, num |-> dbNum]
          [] c = "empty"   -> [ok |-> sec \in allocFlags, num |-> 1]
          [] c = "alias"   -> [ok |-> sec \notin allocFlags, num |-> dbNum]
          [] c = "copy"    -> [ok |-> max >= dbNum /\ sec \in allocFlags, num |-> dbNum]
          [] OTHER         -> [ok |-> TRUE, num |-> cur]

\* populate one index: [ok, size]
PopulateIndex(isec, max, size, dbIdx) ==
    LET c == IndexCase(isec, max, dbIdx)
    IN  CASE c = "null"    -> [ok |-> TRUE, size |-> size]
          [] c = "inherit" -> [ok |-> isec \notin allocFlags, size |-> dbIdx]
          [] c = "rebuild" -> [ok |-> isec \in allocFlags, size |-> size]
          [] c = "empty"   -> [ok |-> isec \in allocFlags, size |-> size]
          [] c = "alias"   -> [ok |-> size = dbIdx /\ isec \notin allocFlags, size |-> dbIdx]
          [] OTHER         -> [ok |-> size = dbIdx /\ isec \in allocFlags, size |-> dbIdx]

\* app.populateDatabaseSections(store, db)
PopulateDatabaseSections ==
    /\ ppc = "created"
    /\ LET sg == PopulateData("SIGNATURE", store.maxSignature, db.numSignature, store.numSignature)
           sx == PopulateIndex("SIGNATUREINDEX", store.maxSignature,
                               store.signatureIndexSize, db.signatureIndexSize)
           hn == PopulateData("HINT", store.maxHint, db.numHint, store.numHint)
           hx == PopulateIndex("HINTINDEX", store.maxHint,
                               store.hintIndexSize, db.hintIndexSize)
           im == PopulateData("IMPRINT", store.maxImprint, db.numImprint, store.numImprint)
           ix == PopulateIndex("IMPRINTINDEX", store.maxImprint,
                               store.imprintIndexSize, db.imprintIndexSize)
           mb == PopulateData("MEMBER", store.maxMember, db.numMember, store.numMember)
           mx == PopulateIndex("MEMBERINDEX", store.maxMember,
                               store.memberIndexSize, db.memberIndexSize)
           ok == /\ "TRANSFORM" \in inheritSections /\ "TRANSFORM" \notin allocFlags
                 /\ sg.ok /\ sx.ok /\ hn.ok /\ hx.ok /\ im.ok /\ ix.ok /\ mb.ok /\ mx.ok
       IN  IF ok
           THEN /\ store' = [store EXCEPT !.numSignature = sg.num,
                                          !.signatureIndexSize = sx.size,
                                          !.numHint = hn.num,
                                          !.hintIndexSize = hx.size,
                                          !.numImprint = im.num,
                                          !.imprintIndexSize = ix.size,
                                          !.numMember = mb.num,
                                          !.memberIndexSize = mx.size]
                /\ ppc' = "populated"
           ELSE /\ store' = store
                /\ ppc' = "aborted"
    /\ UNCHANGED <<db, opt, ctxUnsafe, copyOnWrite, readOnlyMode, hasPreset,
                   inheritSections, rebuildSections, allocFlags, foreignWrites, engVars, sigVars>>

\* sections rebuildImprints() / rebuildImprintsWithHints() write:
\* the imprint index is cleared first, imprints follow when there are signatures
RebuildImprintsWrites(numSignature) ==
    IF numSignature < 2 THEN {"IMPRINTINDEX"} ELSE {"IMPRINTINDEX", "IMPRINT"}

\* store.rebuildIndices(sections): every index named is cleared and refilled
RebuildIndicesWrites(secs) == secs \cap IndexSections

\* main(): the "Rebuild sections" block
RebuildSections ==
    /\ ppc = "populated"
    /\ IF rebuildSections \cap {"HINT", "MEMBER"} # {}
       THEN /\ ppc' = "aborted"
            /\ UNCHANGED <<store, rebuildSections, foreignWrites, tick>>
       ELSE LET numSig == IF "SIGNATURE" \in rebuildSections
                          THEN db.numSignature ELSE store.numSignature
                w1  == IF "SIGNATURE" \in rebuildSections THEN {"SIGNATURE"} ELSE {}
                w2  == IF "IMPRINT" \in rebuildSections
                       THEN RebuildImprintsWrites(numSig) ELSE {}
                reb == IF "IMPRINT" \in rebuildSections
                       THEN rebuildSections \ {"IMPRINT", "IMPRINTINDEX"}
                       ELSE rebuildSections
                w3  == RebuildIndicesWrites(reb)
            IN  /\ store' = [store EXCEPT
                       !.numSignature = numSig,
                       !.numImprint = IF "IMPRINT" \in rebuildSections /\ numSig >= 2
                                      THEN 1 ELSE @]
                /\ rebuildSections' = reb
                /\ foreignWrites' = foreignWrites \cup Foreign(w1 \cup w2 \cup w3)
                /\ tick' = IF "IMPRINT" \in rebuildSections /\ numSig >= 2 THEN 0 ELSE tick
                /\ ppc' = "rebuilt"
    /\ UNCHANGED <<db, opt, ctxUnsafe, copyOnWrite, readOnlyMode, hasPreset,
                   inheritSections, allocFlags, engVars, optTimer, outputFile>>

\* sections foundTreeMember() writes while candidates are processed
EngineWrites ==
    {"SIGNATURE"} \cup PairSections
        \cup (IF readOnlyMode THEN {} ELSE {"MEMBER", "MEMBERINDEX"})

\* membersFromFile() / membersFromGenerator(); each resets the ticker when it runs
BuildMembers ==
    /\ ppc = "rebuilt"
    /\ foreignWrites' = foreignWrites \cup Foreign(EngineWrites)
    /\ tick' \in {0, tick}
    /\ ppc' = "built"
    /\ UNCHANGED <<db, opt, ctxUnsafe, copyOnWrite, readOnlyMode, hasPreset,
                   inheritSections, rebuildSections, store, allocFlags, engVars, optTimer, outputFile>>

\* sections finaliseMembers() writes
FinaliseWrites == {"SIGNATURE", "MEMBER", "MEMBERINDEX"} \cup PairSections

\* main(): finalise when the run is writable
FinaliseRun ==
    /\ ppc = "built"
    /\ ~readOnlyMode
    /\ foreignWrites' = foreignWrites \cup Foreign(FinaliseWrites)
    /\ tick' = 0
    /\ ppc' = "done"
    /\ UNCHANGED <<db, opt, ctxUnsafe, copyOnWrite, readOnlyMode, hasPreset,
                   inheritSections, rebuildSections, store, allocFlags, engVars, optTimer, outputFile>>

\* ticks of the interval timer taken into account
MaxTicks == 1

\* main() as far as the timer is armed and the process has not ended
Running == ppc \notin {"fatal", "aborted", "ended", "saved", "exit"}

\* what the signal handlers leave alone besides the ticker and the file
signalFrame == <<db, opt, ctxUnsafe, copyOnWrite, hasPreset, inheritSections,
                 rebuildSections, allocFlags, foreignWrites, readOnlyMode, store,
                 engVars, optTimer>>

\* sigalrmHandler(): bump the ticker and arm the timer again
SigAlarm ==
    /\ Running
    /\ optTimer
    /\ tick < MaxTicks
    /\ tick' = tick + 1
    /\ UNCHANGED <<signalFrame, ppc, outputFile>>

\* main(): "Save the database". Without --saveindex the indices and the
\* imprints are dropped; the handlers are installed and the file is written
SaveDatabase ==
    /\ ppc = "done"
    /\ \E hasOutput, saveIndex \in BOOLEAN :
          IF hasOutput
          THEN /\ store' = IF saveIndex THEN store
                           ELSE [store EXCEPT !.signatureIndexSize = 0,
                                              !.hintIndexSize = 0,
                                              !.imprintIndexSize = 0,
                                              !.numImprint = 0,
                                              !.interleave = 0,
                                              !.interleaveStep = 0,
                                              !.memberIndexSize = 0]
               /\ outputFile' = "partial"
               /\ ppc' = "saving"
          ELSE /\ ppc' = "ended"
               /\ UNCHANGED <<store, outputFile>>
    /\ UNCHANGED <<db, opt, ctxUnsafe, copyOnWrite, readOnlyMode, hasPreset,
                   inheritSections, rebuildSections, allocFlags, foreignWrites,
                   engVars, tick, optTimer>>

\* store.save() returns: the file is complete
SaveDone ==
    /\ ppc = "saving"
    /\ outputFile' = "saved"
    /\ ppc' = "saved"
    /\ UNCHANGED <<signalFrame, tick>>

\* a handler for SIGINT / SIGHUP that exits and leaves the file
sigintHandlerKeep ==
    /\ ppc = "saving"
    /\ ppc' = "exit"
    /\ UNCHANGED <<signalFrame, tick, outputFile>>

\* sigintHandler() on SIGINT or SIGHUP, installed while the file is written:
\* remove the output file and exit(1)
sigintHandler ==
    /\ ppc = "saving"
    /\ outputFile' = "removed"
    /\ ppc' = "exit"
    /\ UNCHANGED <<signalFrame, tick>>

NextPlan ==
    \/ MainSetup
    \/ SizeDatabaseSections
    \/ StoreCreate
    \/ PopulateDatabaseSections
    \/ RebuildSections
    \/ BuildMembers
    \/ FinaliseRun
    \/ SigAlarm
    \/ SaveDatabase
    \/ SaveDone
    \/ sigintHandler

SpecPlan == InitPlan /\ [][NextPlan]_vars

-----------------------------------------------------------------------------
(* The candidate trees offered to the member engine                         *)
(* A tree is known by its notation. `sid` is the signature group the        *)
(* imprint index answers for it (0: not in the catalogue), `size` its node  *)
(* count, `score` and `rank` what calcScoreName() and tinyTree_t::compare() *)
(* order it by. Q, T, F are its tails and `heads` its heads, each as the    *)
(* notation saveString() gives (fast) and the re-normalised one (slow);     *)
(* an F of "" is a tail F equal to the tail T.                              *)

Comp(fast, slow) == [fast |-> fast, slow |-> slow]
Norm(name) == Comp(name, name)

Tree(name) ==
    CASE name = "0" -> [sid |-> 1, size |-> 0, score |-> 0, rank |-> 0, kind |-> "kstart",
                        Q |-> Norm(""), T |-> Norm(""), F |-> Norm(""), heads |-> <<>>]
      [] name = "a" -> [sid |-> 2, size |-> 0, score |-> 0, rank |-> 1, kind |-> "kstart",
                        Q |-> Norm(""), T |-> Norm(""), F |-> Norm(""), heads |-> <<>>]
      [] name = "u" -> [sid |-> 4, size |-> 1, score |-> 1, rank |-> 2, kind |-> "node",
                        Q |-> Norm("a"), T |-> Norm("m"), F |-> Norm("a"), heads |-> <<>>]
      [] name = "p" -> [sid |-> 3, size |-> 1, score |-> 1, rank |-> 3, kind |-> "node",
                        Q |-> Norm("a"), T |-> Norm("a"), F |-> Norm(""), heads |-> <<>>]
      [] name = "s" -> [sid |-> 3, size |-> 1, score |-> 1, rank |-> 4, kind |-> "node",
                        Q |-> Norm("a"), T |-> Norm("a"), F |-> Norm("a"), heads |-> <<>>]
      [] name = "t" -> [sid |-> 4, size |-> 2, score |-> 2, rank |-> 5, kind |-> "node",
                        Q |-> Comp("s'", "s"), T |-> Norm("a"), F |-> Norm(""),
                        heads |-> <<Norm("s")>>]
      [] name = "w" -> [sid |-> 3, size |-> 2, score |-> 2, rank |-> 6, kind |-> "node",
                        Q |-> Norm("s"), T |-> Norm("a"), F |-> Norm("a"),
                        heads |-> <<Norm("s"), Norm("a")>>]
      [] name = "v" -> [sid |-> 4, size |-> 2, score |-> 2, rank |-> 8, kind |-> "node",
                        Q |-> Norm("p"), T |-> Norm("m"), F |-> Norm("a"), heads |-> <<>>]
      [] name = "x" -> [sid |-> 3, size |-> 3, score |-> 3, rank |-> 9, kind |-> "node",
                        Q |-> Norm("a"), T |-> Norm("a"), F |-> Norm(""), heads |-> <<>>]
      [] OTHER      -> [sid |-> 0, size |-> 1, score |-> 1, rank |-> 7, kind |-> "node",
                        Q |-> Norm("a"), T |-> Norm("a"), F |-> Norm(""), heads |-> <<>>]

\* the notations a load file or the generator can offer
Candidates == {"a", "p", "s", "u", "t", "w", "v", "m"}
\* the same with a candidate two nodes larger than its signature
EarlierCandidates == Candidates \cup {"x"}

\* signature groups of the catalogue: ids 0 .. NumSigs-1, 0 reserved
SigIds == 0..4
\* the catalogue a 0-node signature build leaves: the reserved entry, "0", "a"
ZeroNodeSigIds == 0..2
\* the catalogues an input database of a first build can hold
Catalogues == {ZeroNodeSigIds, SigIds}
\* node count of the signature itself
SigSize(sid) == IF sid <= 2 THEN 0 ELSE 1

\* hash of a member name
Hash(name) ==
    CASE name = "0" -> 6 [] name = "a" -> 7 [] name = "p" -> 12 [] name = "s" -> 3 [] name = "u" -> 9
      [] name = "t" -> 16 [] name = "w" -> 5 [] name = "s'" -> 11 [] name = "v" -> 14
      [] name = "x" -> 15 [] OTHER -> 2

EmptyMember ==
    [name |-> "", sid |-> 0, flags |-> {}, Qmt |-> 0, Tmt |-> 0, Fmt |-> 0,
     heads |-> <<>>, nextMember |-> 0]

-----------------------------------------------------------------------------
(* database_t: member index and pairs *)

\* one statement after another: the value of v, then F of that value
Then(v, F(_)) == CHOOSE out \in {F(x) : x \in {v}} : TRUE

\* number of slots of an index
IndexSlots(idx) == Cardinality(DOMAIN idx)

RECURSIVE Probe(_, _, _, _, _)
\* linear probe from slot ix: the first slot that is empty or holds `name`;
\* IndexSlots(idx) when `tries` slots were seen without finding either
Probe(mem, idx, name, ix, tries) ==
    IF tries = 0 THEN IndexSlots(idx)
    ELSE IF idx[ix] = 0 \/ mem[idx[ix]].name = name THEN ix
    ELSE Probe(mem, idx, name, (ix + 1) % IndexSlots(idx), tries - 1)

\* store.lookupMember(name): slot of the name in the member index
lookupMember(mem, idx, name) ==
    Probe(mem, idx, name, Hash(name) % IndexSlots(idx), IndexSlots(idx))

\* the member id the index holds for a slot; 0 for an empty slot, -1 on overflow
SlotMid(idx, ix) == IF ix = IndexSlots(idx) THEN 0 - 1 ELSE idx[ix]

\* pair id of a member, 0 when the pair is not stored
PairId(prs, mid) ==
    IF \E i \in 1..Len(prs) : prs[i] = mid
    THEN CHOOSE i \in 1..Len(prs) : prs[i] = mid
    ELSE 0

\* lookupPair() followed by addPair() when the pair is new
AddPair(prs, mid) == IF PairId(prs, mid) # 0 THEN prs ELSE Append(prs, mid)

\* member a pair id names; pair 0 is the reserved, zeroed entry
PairMid(prs, pid) == IF pid = 0 \/ pid > Len(prs) THEN 0 ELSE prs[pid]

\* the member a tail field names: through the pair section, or, in the
\* earlier form (fields Q, T, F), the member id itself
RefMid(prs, ref) == IF generation = "earlier" THEN ref ELSE PairMid(prs, ref)

\* `pMember - pStore->members` for the temporary record of foundTreeMember,
\* which is no element of members[]: no member id
StrayMid == 0 - 1

-----------------------------------------------------------------------------
(* genmemberContext_t::findHeadTail                                         *)
(* A result r is [m, pairs, ok, fatal]: the member record, the pair         *)
(* section, the value returned and whether a lookup ran off the index.      *)

\* member id of a component: fast lookup, then the re-normalised notation
ResolveName(mem, idx, comp) ==
    Then(lookupMember(mem, idx, comp.fast), LAMBDA ixFast :
        IF SlotMid(idx, ixFast) # 0 THEN SlotMid(idx, ixFast)
        ELSE Then(lookupMember(mem, idx, comp.slow), LAMBDA ixSlow :
                 SlotMid(idx, ixSlow)))

\* a lookup that takes every tail that is a member for a safe one
TailStepTrusting(mem, idx, r, comp, fld) ==
    IF ~r.ok \/ r.fatal THEN r
    ELSE Then(ResolveName(mem, idx, comp), LAMBDA mid :
             IF mid < 0 THEN [r EXCEPT !.fatal = TRUE]
             ELSE IF mid = 0
             THEN [r EXCEPT !.m.flags = @ \ {"SAFE"}, !.ok = FALSE]
             ELSE Then(AddPair(r.pairs, mid), LAMBDA prs :
                      [r EXCEPT !.m[fld] = PairId(prs, mid), !.pairs = prs]))

\* look up one tail and store its pair id in field fld of the member
TailStep(mem, idx, r, comp, fld) ==
    IF ~r.ok \/ r.fatal THEN r
    ELSE Then(ResolveName(mem, idx, comp), LAMBDA mid :
             IF mid < 0 THEN [r EXCEPT !.fatal = TRUE]
             ELSE IF generation = "earlier"
             THEN IF mid = 0 \/ "SAFE" \notin mem[mid].flags
                  THEN [r EXCEPT !.m[fld] = mid, !.m.flags = @ \ {"SAFE"}, !.ok = FALSE]
                  ELSE [r EXCEPT !.m[fld] = mid]
             ELSE IF mid = 0 \/ "SAFE" \notin mem[mid].flags
             THEN [r EXCEPT !.m.flags = @ \ {"SAFE"}, !.ok = FALSE]
             ELSE Then(AddPair(r.pairs, mid), LAMBDA prs :
                      [r EXCEPT !.m[fld] = PairId(prs, mid), !.pairs = prs]))

\* look up one head and add its member id unless already listed
HeadStep(mem, idx, r, comp) ==
    IF ~r.ok \/ r.fatal THEN r
    ELSE Then(ResolveName(mem, idx, comp), LAMBDA mid :
             IF mid < 0 THEN [r EXCEPT !.fatal = TRUE]
             ELSE IF mid = 0 \/ "SAFE" \notin mem[mid].flags
             THEN [r EXCEPT !.m.flags = @ \ {"SAFE"}, !.ok = FALSE]
             ELSE IF \E k \in 1..Len(r.m.heads) : r.m.heads[k] = mid THEN r
             ELSE [r EXCEPT !.m.heads = Append(@, mid)])

RECURSIVE HeadSteps(_, _, _, _)
HeadSteps(mem, idx, r, comps) ==
    IF comps = <<>> THEN r
    ELSE Then(HeadStep(mem, idx, r, Head(comps)), LAMBDA rn :
             HeadSteps(mem, idx, rn, Tail(comps)))

\* a lookup of heads and tails that never marks the member safe
findHeadTailUnmarked(mem, idx, prs, m, selfMid) ==
    [m |-> m, pairs |-> prs, ok |-> TRUE, fatal |-> FALSE]

\* a lookup that trusts every tail that is a member and looks at no head
findHeadTailTrusting(mem, idx, prs, m, selfMid) ==
    LET tr == Tree(m.name)
        r0 == [m |-> [m EXCEPT !.flags = @ \cup {"SAFE"}],
               pairs |-> prs, ok |-> TRUE, fatal |-> FALSE]
    IN  IF tr.kind # "node" THEN r0
        ELSE Then(TailStepTrusting(mem, idx, r0, tr.Q, "Qmt"), LAMBDA rq :
             Then(TailStepTrusting(mem, idx, rq, tr.T, "Tmt"), LAMBDA rt :
                  IF ~rt.ok \/ rt.fatal \/ tr.F.fast = "" THEN rt
                  ELSE TailStepTrusting(mem, idx, rt, tr.F, "Fmt")))

\* findHeadTail(pMember, treeR); selfMid is pMember - pStore->members,
\* 0 for a record that is no element of members[]
findHeadTail(mem, idx, prs, m, selfMid) ==
    LET tr == Tree(m.name)
        r0 == [m |-> [m EXCEPT !.flags = @ \cup {"SAFE"}],
               pairs |-> prs, ok |-> TRUE, fatal |-> FALSE]
    IN  IF tr.kind # "node"
        THEN LET pid == IF generation = "earlier" THEN StrayMid ELSE PairId(prs, selfMid)
             IN  [r0 EXCEPT !.m.Qmt = pid, !.m.Tmt = pid, !.m.Fmt = pid]
        ELSE Then(TailStep(mem, idx, r0, tr.Q, "Qmt"), LAMBDA rq :
             Then(TailStep(mem, idx, rq, tr.T, "Tmt"), LAMBDA rt :
             Then(IF ~rt.ok \/ rt.fatal THEN rt
                  ELSE IF tr.F.fast = "" THEN [rt EXCEPT !.m.Fmt = 0]
                  ELSE TailStep(mem, idx, rt, tr.F, "Fmt"), LAMBDA rf :
             Then(IF ~rf.ok \/ rf.fatal THEN rf
                  ELSE [rf EXCEPT !.m.heads = <<>>], LAMBDA rh :
             HeadSteps(mem, idx, rh, tr.heads)))))

-----------------------------------------------------------------------------
(* memberAlloc / memberFree and the group flush of foundTreeMember          *)
(* An engine state e is a record of the fields the engine writes.           *)

\* a release that pushes the record on the free list as it is
memberFreeKept(e, mid) ==
    [e EXCEPT !.members[mid].nextMember = e.freeMemberRoot,
              !.freeMemberRoot = mid]

\* memberFree(pMember): zero the record and push it on the free list;
\* the slot of the member index that names it is left as it is
memberFree(e, mid) ==
    [e EXCEPT !.members[mid] = [EmptyMember EXCEPT !.nextMember = e.freeMemberRoot],
              !.freeMemberRoot = mid]

\* an allocation that always appends and leaves the free list alone
memberAllocAppend(e, name) ==
    IF e.numMember >= store.maxMember
    THEN [e |-> [e EXCEPT !.fatal = TRUE], mid |-> 0]
    ELSE [e |-> [e EXCEPT !.numMember = @ + 1,
                          !.members[e.numMember] = [EmptyMember EXCEPT !.name = name]],
          mid |-> e.numMember]

\* memberAlloc(pName): pop the free list, or append with store.addMember();
\* [e, mid], with e.fatal set when the member section is full
memberAlloc(e, name) ==
    IF e.freeMemberRoot # 0
    THEN [e |-> [e EXCEPT !.freeMemberRoot = e.members[e.freeMemberRoot].nextMember,
                          !.members[e.freeMemberRoot].name = name],
          mid |-> e.freeMemberRoot]
    ELSE IF e.numMember >= store.maxMember
    THEN [e |-> [e EXCEPT !.fatal = TRUE], mid |-> 0]
    ELSE [e |-> [e EXCEPT !.numMember = @ + 1,
                          !.members[e.numMember] = [EmptyMember EXCEPT !.name = name]],
          mid |-> e.numMember]

\* clear every tail that names member `mid`; a SAFE referrer trips the assertion
Unreference(e, mid) ==
    LET refs(i) == {f \in {"Qmt", "Tmt", "Fmt"} : RefMid(e.pairs, e.members[i][f]) = mid}
        live    == 1..(e.numMember - 1)
    IN  [e EXCEPT !.members = [i \in DOMAIN e.members |->
                                  IF i \in live
                                  THEN [f \in DOMAIN e.members[i] |->
                                           IF f \in refs(i) THEN 0 ELSE e.members[i][f]]
                                  ELSE e.members[i]],
                  !.aborted = @ \/ \E i \in live :
                                      refs(i) # {} /\ "SAFE" \in e.members[i].flags]

RECURSIVE FlushGroup(_, _)
\* release the whole chain of signature sid
FlushGroup(e, sid) ==
    IF e.signatures[sid].firstMember = 0 THEN e
    ELSE Then(e.signatures[sid].firstMember, LAMBDA first :
         Then(Unreference(e, first), LAMBDA e1 :
         Then(memberFree([e1 EXCEPT !.signatures[sid].firstMember =
                                        e1.members[first].nextMember], first), LAMBDA e2 :
         FlushGroup(e2, sid))))

-----------------------------------------------------------------------------
(* genmemberContext_t::foundTreeMember *)

\* the fields of the program the engine reads and writes, as one record
EngineState ==
    [members |-> members, numMember |-> store.numMember, memberIndex |-> memberIndex,
     signatures |-> signatures, pairs |-> pairs, freeMemberRoot |-> freeMemberRoot,
     app |-> app, pSafeScores |-> pSafeScores, fatal |-> FALSE, aborted |-> FALSE]

\* "avoid storage full": too little room left for imprints or signatures
OverflowGuard ==
    /\ optTruncate
    /\ \/ store.maxImprint - store.numImprint <= store.interleave
       \/ store.maxSignature - store.numSignature <= 1

\* the tree of a candidate with the signature the imprint index of the
\* database answers for it: sid 0 for a signature the database does not hold
lookupImprintAssociative(sigs, name) ==
    IF Tree(name).sid \in DOMAIN sigs THEN Tree(name) ELSE [Tree(name) EXCEPT !.sid = 0]

\* a link that makes the new member its own successor
LinkMemberLooped(e, m, sid, mix) ==
    IF readOnlyMode THEN [e EXCEPT !.signatures[sid].firstMember = 1]
    ELSE Then(memberAlloc(e, m.name), LAMBDA al :
             IF al.e.fatal THEN al.e
             ELSE [al.e EXCEPT
                     !.members[al.mid] = [m EXCEPT !.nextMember = al.mid],
                     !.signatures[sid].firstMember = al.mid,
                     !.memberIndex[mix] = al.mid])

\* link member m as the first of its group, in a freshly allocated record;
\* a read-only build links the fake member id 1 instead
LinkMember(e, m, sid, mix) ==
    IF readOnlyMode THEN [e EXCEPT !.signatures[sid].firstMember = 1]
    ELSE Then(memberAlloc(e, m.name), LAMBDA al :
             IF al.e.fatal THEN al.e
             ELSE [al.e EXCEPT
                     !.members[al.mid] =
                         [m EXCEPT !.nextMember = e.signatures[sid].firstMember],
                     !.signatures[sid].firstMember = al.mid,
                     !.memberIndex[mix] = al.mid])

\* an admission that leaves the flag of the signature as it was
AdmitUnmarked(e, m, tr, mix) ==
    Then(IF e.signatures[tr.sid].firstMember = 0
         THEN [e EXCEPT !.app.numEmpty = @ - 1]
         ELSE e, LAMBDA e3 :
    Then(LinkMember(e3, m, tr.sid, mix), LAMBDA e4 :
    [e4 EXCEPT !.pSafeScores[tr.sid] = tr.size]))

\* Admit that leaves safeScore[sid] as it was
AdmitUnscored(e, m, tr, mix) ==
    LET sid     == tr.sid
        promote == "SAFE" \notin e.signatures[sid].flags /\ "SAFE" \in m.flags
    IN  Then(IF promote /\ e.signatures[sid].firstMember # 0
             THEN IF readOnlyMode
                  THEN [e EXCEPT !.signatures[sid].firstMember = 0]
                  ELSE FlushGroup(e, sid)
             ELSE e, LAMBDA e1 :
        Then(IF promote
             THEN [e1 EXCEPT !.signatures[sid].flags = @ \cup {"SAFE"},
                             !.app.numUnsafe = @ - 1]
             ELSE e1, LAMBDA e2 :
        Then(IF e2.signatures[sid].firstMember = 0
             THEN [e2 EXCEPT !.app.numEmpty = @ - 1]
             ELSE e2, LAMBDA e3 :
        LinkMember(e3, m, sid, mix))))

\* an admission whose flush does not count the group it emptied
AdmitUncounted(e, m, tr, mix) ==
    LET sid     == tr.sid
        promote == "SAFE" \notin e.signatures[sid].flags /\ "SAFE" \in m.flags
    IN  Then(IF promote /\ e.signatures[sid].firstMember # 0
             THEN IF readOnlyMode
                  THEN [e EXCEPT !.signatures[sid].firstMember = 0]
                  ELSE FlushGroup(e, sid)
             ELSE e, LAMBDA e1 :
        Then(IF promote
             THEN [e1 EXCEPT !.signatures[sid].flags = @ \cup {"SAFE"},
                             !.app.numUnsafe = @ - 1]
             ELSE e1, LAMBDA e2 :
        Then(IF e2.signatures[sid].firstMember = 0
             THEN [e2 EXCEPT !.app.numEmpty = @ - 1]
             ELSE e2, LAMBDA e3 :
        Then(LinkMember(e3, m, sid, mix), LAMBDA e4 :
        [e4 EXCEPT !.pSafeScores[sid] = tr.size]))))

\* the candidate won the challenge: flush the group when an unsafe group
\* meets a safe candidate ('>'), then admit
Admit(e, m, tr, mix) ==
    LET sid     == tr.sid
        promote == "SAFE" \notin e.signatures[sid].flags /\ "SAFE" \in m.flags
    IN  Then(IF promote /\ e.signatures[sid].firstMember # 0
             THEN Then(IF readOnlyMode
                       THEN [e EXCEPT !.signatures[sid].firstMember = 0]
                       ELSE FlushGroup(e, sid), LAMBDA f :
                      [f EXCEPT !.app.numEmpty = @ + 1])
             ELSE e, LAMBDA e1 :
        Then(IF promote
             THEN [e1 EXCEPT !.signatures[sid].flags = @ \cup {"SAFE"},
                             !.app.numUnsafe = @ - 1]
             ELSE e1, LAMBDA e2 :
        Then(IF e2.signatures[sid].firstMember = 0
             THEN [e2 EXCEPT !.app.numEmpty = @ - 1]
             ELSE e2, LAMBDA e3 :
        Then(LinkMember(e3, m, sid, mix), LAMBDA e4 :
        [e4 EXCEPT !.pSafeScores[sid] = tr.size]))))

\* an early reject that allows an unsafe group no node more than its signature
earlyRejectTight(sigFlags, sizeR, safeScore, sigSize) ==
    IF "SAFE" \in sigFlags THEN sizeR > safeScore ELSE sizeR > sigSize

\* "early-reject": a SAFE group takes no candidate larger than its best member,
\* an unsafe one none larger than the signature by more than a node; the
\* earlier form treats every group as unsafe under --text=sql. Its opt_score
\* is 0 in every run (no option sets it), so sizes are compared, never scores
earlyReject(sigFlags, sizeR, safeScore, sigSize) ==
    IF "SAFE" \in sigFlags /\ ~(generation = "earlier" /\ optText = "sql")
    THEN sizeR > safeScore
    ELSE sizeR > sigSize + 1

\* the challenge and the admission of a candidate that is new to the index
\* (slot mix is empty), after the overflow guard let it pass
Challenge(e, name, mix) ==
    LET tr == lookupImprintAssociative(e.signatures, name)
        out(e1) == [e |-> e1, ret |-> TRUE, guard |-> FALSE]
    IN  IF tr.sid = 0 THEN out(e)
        ELSE IF earlyReject(e.signatures[tr.sid].flags, tr.size,
                            e.pSafeScores[tr.sid], SigSize(tr.sid))
        THEN out([e EXCEPT !.app.skipSize = @ + 1])
        ELSE Then(findHeadTail(e.members, e.memberIndex, e.pairs,
                               [EmptyMember EXCEPT !.name = name, !.sid = tr.sid], 0),
                  LAMBDA r :
                 IF r.fatal THEN out([e EXCEPT !.fatal = TRUE])
                 ELSE IF "SAFE" \in e.signatures[tr.sid].flags /\ "SAFE" \notin r.m.flags
                 THEN out([e EXCEPT !.pairs = r.pairs, !.app.skipUnsafe = @ + 1])
                 ELSE Then(Admit([e EXCEPT !.pairs = r.pairs], r.m, tr, mix), out))

\* a call that returns on a duplicate name without counting it
foundTreeMemberUncounted(e0, name) ==
    Then(e0, LAMBDA e :
    Then(lookupMember(e.members, e.memberIndex, name), LAMBDA mix :
        IF e.app.truncated # 0 THEN [e |-> e, ret |-> FALSE, guard |-> FALSE]
        ELSE IF mix = IndexSlots(e.memberIndex)
        THEN [e |-> [e EXCEPT !.fatal = TRUE], ret |-> TRUE, guard |-> FALSE]
        ELSE IF e.memberIndex[mix] # 0 THEN [e |-> e, ret |-> TRUE, guard |-> FALSE]
        ELSE IF OverflowGuard
        THEN [e |-> [e EXCEPT !.app.truncated = progress, !.app.truncatedName = name],
              ret |-> FALSE, guard |-> TRUE]
        ELSE Challenge(e, name, mix)))

\* foundTreeMember(treeR, pNameR, ...): [e, ret, guard]
foundTreeMember(e0, name) ==
    Then(e0, LAMBDA e :
    Then(lookupMember(e.members, e.memberIndex, name), LAMBDA mix :
        IF e.app.truncated # 0 THEN [e |-> e, ret |-> FALSE, guard |-> FALSE]
        ELSE IF mix = IndexSlots(e.memberIndex)
        THEN [e |-> [e EXCEPT !.fatal = TRUE], ret |-> TRUE, guard |-> FALSE]
        ELSE IF e.memberIndex[mix] # 0
        THEN [e |-> [e EXCEPT !.app.skipDuplicate = @ + 1], ret |-> TRUE, guard |-> FALSE]
        ELSE IF OverflowGuard
        THEN [e |-> [e EXCEPT !.app.truncated = progress, !.app.truncatedName = name],
              ret |-> FALSE, guard |-> TRUE]
        ELSE Challenge(e, name, mix)))

-----------------------------------------------------------------------------
(* genmemberContext_t::comparMember and finaliseMembers *)

\* comparMember(lhs, rhs): <0, 0 or >0
comparMember(l, r) ==
    IF l.sid = 0 /\ r.sid = 0 THEN 0
    ELSE IF l.sid = 0 THEN 1
    ELSE IF r.sid = 0 THEN 0 - 1
    ELSE IF "SAFE" \in l.flags /\ "SAFE" \notin r.flags THEN 0 - 1
    ELSE IF "SAFE" \notin l.flags /\ "SAFE" \in r.flags THEN 1
    ELSE IF "DEPR" \in l.flags /\ "DEPR" \notin r.flags THEN 1
    ELSE IF "DEPR" \notin l.flags /\ "DEPR" \in r.flags THEN 0 - 1
    ELSE IF "COMP" \in l.flags /\ "COMP" \notin r.flags THEN 0 - 1
    ELSE IF "COMP" \notin l.flags /\ "COMP" \in r.flags THEN 0 - 1
    ELSE IF Tree(l.name).score # Tree(r.name).score
    THEN Tree(l.name).score - Tree(r.name).score
    ELSE Tree(l.name).rank - Tree(r.name).rank

Perms(S) == {f \in [S -> S] : \A i, j \in S : i # j => f[i] # f[j]}

\* qsort_r(members + 1, numMember - 1, ..., comparMember): the comparator is
\* not an ordering (a component and a non-component are each "less" than the
\* other), so the result is any arrangement in which every two neighbours
\* are justified by a comparison of the earlier with the later input element
qsortMembers(mem, n) ==
    LET justified(f) ==
            \A k \in 1..(n - 2) :
                IF f[k] < f[k + 1]
                THEN comparMember(mem[f[k]], mem[f[k + 1]]) <= 0
                ELSE comparMember(mem[f[k + 1]], mem[f[k]]) > 0
    IN  {[i \in DOMAIN mem |-> IF i \in 1..(n - 1) THEN mem[f[i]] ELSE mem[i]] :
            f \in {g \in Perms(1..(n - 1)) : justified(g)}}

RECURSIVE TrimDeleted(_, _)
\* lower numMember past the deleted members at the end
TrimDeleted(mem, n) ==
    IF n > 1 /\ mem[n - 1].sid = 0 THEN TrimDeleted(mem, n - 1) ELSE n

\* one round of the "Indexing members" loop: member iMid with the tails and
\* heads findHeadTail() gave it (r) goes into the index
IndexMember(e, iMid, r) ==
    LET m     == e.members[iMid]
        sig   == e.signatures[m.sid]
        mSafe == "SAFE" \in r.m.flags
        e1    == [e EXCEPT !.members[iMid] = r.m, !.pairs = r.pairs]
    IN  IF r.fatal THEN [e EXCEPT !.fatal = TRUE]
        ELSE IF sig.firstMember # 0 /\ ~mSafe /\ "SAFE" \in sig.flags
        THEN [e1 EXCEPT !.app.skipUnsafe = @ + 1]
        ELSE Then(lookupMember(e1.members, e1.memberIndex, m.name), LAMBDA ix :
                 IF ix = IndexSlots(e1.memberIndex) THEN [e1 EXCEPT !.fatal = TRUE]
                 ELSE IF e1.memberIndex[ix] # 0 THEN [e1 EXCEPT !.aborted = TRUE]
                 ELSE [e1 EXCEPT !.signatures[m.sid].flags =
                                     IF mSafe THEN @ \cup {"SAFE"} ELSE @,
                                 !.memberIndex[ix] = iMid])

RECURSIVE IndexMembers(_, _)
\* the "Indexing members" loop, from member iMid on
IndexMembers(e, iMid) ==
    IF iMid >= e.numMember \/ e.fatal \/ e.aborted THEN e
    ELSE IF e.members[iMid].sid = 0 THEN [e EXCEPT !.aborted = TRUE]
    ELSE Then(findHeadTail(e.members, e.memberIndex, e.pairs, e.members[iMid], iMid),
              LAMBDA r :
         Then(IndexMember(e, iMid, r), LAMBDA en :
         IndexMembers(en, iMid + 1)))

\* push member iMid onto the head of the chain of its signature
PushMember(e, iMid) ==
    [e EXCEPT !.members[iMid].nextMember = e.signatures[e.members[iMid].sid].firstMember,
              !.signatures[e.members[iMid].sid].firstMember = iMid]

RECURSIVE ChainUp(_, _)
\* a walk from member iMid up to the last, pushing each
ChainUp(e, iMid) ==
    IF iMid >= e.numMember THEN e
    ELSE Then(PushMember(e, iMid), LAMBDA en : ChainUp(en, iMid + 1))

\* a re-chaining that walks the members from first to last
ChainMembersForward(e) == ChainUp(e, 1)

RECURSIVE ChainDown(_, _)
\* the walk from member iMid down to member 1, pushing each
ChainDown(e, iMid) ==
    IF iMid < 1 THEN e
    ELSE Then(PushMember(e, iMid), LAMBDA en : ChainDown(en, iMid - 1))

\* "String all the members to signatures, best one is first in list"
ChainMembers(e) == ChainDown(e, e.numMember - 1)

\* a round that flags the members referenced by member iMid whether or not
\* member iMid is safe
FlagComponentAny(e, iMid) ==
    LET m == e.members[iMid]
        tails == {PairMid(e.pairs, m[f]) : f \in {g \in {"Qmt", "Tmt", "Fmt"} : m[g] # 0}}
        heads == {m.heads[k] : k \in 1..Len(m.heads)}
    IN  Then(tails \cup heads, LAMBDA comps :
             [e EXCEPT !.members = [i \in DOMAIN e.members |->
                 IF i \in comps THEN [e.members[i] EXCEPT !.flags = @ \cup {"COMP"}]
                 ELSE IF i = iMid THEN [e.members[i] EXCEPT !.flags = @ \ {"COMP"}]
                 ELSE e.members[i]]])

\* one round of "Flag component members": member iMid loses COMP, and when
\* it is safe its tails and heads gain it
FlagComponent(e, iMid) ==
    LET m == e.members[iMid]
        tails == {PairMid(e.pairs, m[f]) : f \in {g \in {"Qmt", "Tmt", "Fmt"} : m[g] # 0}}
        heads == {m.heads[k] : k \in 1..Len(m.heads)}
    IN  Then(IF "SAFE" \in m.flags THEN tails \cup heads ELSE {}, LAMBDA comps :
             [e EXCEPT !.members = [i \in DOMAIN e.members |->
                 IF i \in comps THEN [e.members[i] EXCEPT !.flags = @ \cup {"COMP"}]
                 ELSE IF i = iMid THEN [e.members[i] EXCEPT !.flags = @ \ {"COMP"}]
                 ELSE e.members[i]]])

RECURSIVE FlagComponents(_, _)
\* "Flag component members", from member iMid on
FlagComponents(e, iMid) ==
    IF iMid >= e.numMember THEN e
    ELSE Then(FlagComponent(e, iMid), LAMBDA en : FlagComponents(en, iMid + 1))

\* a count of the empty groups that starts at signature 0
CountEmptyFromZero(sigs) == Cardinality({i \in DOMAIN sigs : sigs[i].firstMember = 0})

\* numEmpty / numUnsafe as recounted over signatures 1 .. numSignature-1
CountEmpty(sigs) == Cardinality({i \in DOMAIN sigs \ {0} : sigs[i].firstMember = 0})
CountUnsafe(sigs) == Cardinality({i \in DOMAIN sigs \ {0} : "SAFE" \notin sigs[i].flags})

\* finaliseMembers() after the sort produced `sorted`
finaliseSorted(e, sorted) ==
    Then([e EXCEPT
            !.pairs = <<>>,
            !.memberIndex = [i \in DOMAIN e.memberIndex |-> 0],
            !.signatures = [i \in DOMAIN e.signatures |->
                               [firstMember |-> 0, flags |-> e.signatures[i].flags \ {"SAFE"}]],
            !.app.skipDuplicate = 0, !.app.skipSize = 0, !.app.skipUnsafe = 0,
            !.members = sorted,
            !.numMember = TrimDeleted(sorted, e.numMember)], LAMBDA e0 :
    Then(IndexMembers(e0, 1), LAMBDA e1 :
        IF e1.fatal \/ e1.aborted THEN e1
        ELSE Then(ChainMembers(e1), LAMBDA ec :
             Then(FlagComponents(ec, 1), LAMBDA e2 :
             [e2 EXCEPT !.app.numEmpty = CountEmpty(e2.signatures),
                        !.app.numUnsafe = CountUnsafe(e2.signatures)]))))

-----------------------------------------------------------------------------
(* main() of genmember from the first candidate to the end of the build,    *)
(* for `genmember <in> 0 [<out>]` with --load, --[no-]generate, --truncate  *)

\* --maxmember / --memberindexsize of the output database
StoreConfigs ==
    {[maxMember |-> n, memberIndexSize |-> nextPrime(n + 1)] : n \in (MaxMember - 1)..MaxMember}

PlannerIdle ==
    /\ db = [numSignature |-> Cardinality(SigIds)]
    /\ opt = [maxSignature |-> Cardinality(SigIds)]
    /\ ctxUnsafe = FALSE /\ copyOnWrite = FALSE /\ hasPreset = FALSE
    /\ inheritSections = {} /\ rebuildSections = {}
    /\ allocFlags = AllSections /\ ppc = "engine" /\ foreignWrites = {}

\* genmemberContext_t() and the counting of empty / unsafe groups in main()
FreshApp(sigs) ==
    [skipDuplicate |-> 0, skipSize |-> 0, skipUnsafe |-> 0,
     numEmpty |-> CountEmpty(sigs), numUnsafe |-> CountUnsafe(sigs),
     truncated |-> 0, truncatedName |-> ""]

\* main(): "calc initial signature group scores"
InitialSafeScores(mem, sigs) ==
    [sid \in DOMAIN sigs |->
        IF "SAFE" \in sigs[sid].flags THEN Tree(mem[sigs[sid].firstMember].name).size ELSE 0]

\* a first build on a database that holds the signatures and no members
InitBuild ==
    /\ PlannerIdle
    /\ TreeIdle
    /\ SignalIdle
    /\ readOnlyMode \in BOOLEAN
    /\ optTruncate \in BOOLEAN
    /\ \E c \in StoreConfigs, cat \in Catalogues :
          /\ store = [EmptyStore EXCEPT
                        !.maxSignature = Cardinality(cat),
                        !.numSignature = Cardinality(cat),
                        !.interleave = METRICS_DEFAULT_INTERLEAVE,
                        !.interleaveStep = InterleaveStep(METRICS_DEFAULT_INTERLEAVE),
                        !.maxImprint = Cardinality(cat),
                        !.numImprint = Cardinality(cat),
                        !.maxMember = c.maxMember,
                        !.memberIndexSize = c.memberIndexSize,
                        !.numMember = 1]
          /\ members = [i \in 0..(c.maxMember - 1) |-> EmptyMember]
          /\ memberIndex = [i \in 0..(c.memberIndexSize - 1) |-> 0]
          /\ signatures = [sid \in cat |-> [firstMember |-> 0, flags |-> {}]]
          /\ pSafeScores = [sid \in cat |-> 0]
    /\ pairs = <<>>
    /\ freeMemberRoot = 0
    /\ app = FreshApp(signatures)
    /\ progress = 0 /\ epc = "load" /\ ret = "none"
    /\ calls = 0 /\ runs = 1 /\ guardFired = FALSE

\* the engine of genmember.cc
Init ==
    /\ InitBuild
    /\ generation = "current" /\ optText = "none"

\* --text: a mode that prints nothing per member, and the SQL dump
TextModes == {"none", "sql"}

\* the earlier form of the engine; its main() keeps the build writable when
\* --text asks for the SQL dump
InitEarlier ==
    /\ InitBuild
    /\ generation = "earlier" /\ optText \in TextModes
    /\ optText = "sql" => ~readOnlyMode

runVars == <<planVars, readOnlyMode, optTruncate, runs, generation, optText>>

\* write an engine state back
Commit(e) ==
    /\ members' = e.members
    /\ memberIndex' = e.memberIndex
    /\ signatures' = e.signatures
    /\ pairs' = e.pairs
    /\ freeMemberRoot' = e.freeMemberRoot
    /\ app' = e.app
    /\ pSafeScores' = e.pSafeScores
    /\ store' = [store EXCEPT !.numMember = e.numMember]

\* ctx.fatal() or a failed assert ends the process; nothing is saved
Died(e) ==
    /\ epc' = IF e.fatal THEN "fatal" ELSE "aborted"
    /\ UNCHANGED <<members, memberIndex, signatures, pairs, freeMemberRoot, app,
                   pSafeScores, store, progress, ret, guardFired>>

\* one call foundTreeMember(name); the caller moves to onTrue / onFalse and
\* adds `step` to ctx.progress when the call returned true
Call(name, onTrue, onFalse, step) ==
    \E r \in {foundTreeMember(EngineState, name)} :
        /\ calls' = calls + 1
        /\ IF r.e.fatal \/ r.e.aborted THEN Died(r.e)
           ELSE /\ Commit(r.e)
                /\ ret' = IF r.ret THEN "true" ELSE "false"
                /\ guardFired' = (guardFired \/ r.guard)
                /\ epc' = IF r.ret THEN onTrue ELSE onFalse
                /\ progress' = IF r.ret THEN progress + step ELSE progress
        /\ UNCHANGED runVars

\* membersFromFile(): one line of the load file
LoadLine(name) ==
    /\ epc = "load"
    /\ calls < MaxCalls
    /\ Call(name, "load", "loaded", 1)

\* membersFromFile(): end-of-input (at once when --load is not given)
EndOfFile ==
    /\ epc = "load"
    /\ epc' = "loaded"
    /\ UNCHANGED <<members, memberIndex, signatures, pairs, freeMemberRoot, app,
                   pSafeScores, store, progress, ret, calls, guardFired, runVars>>

\* membersFromGenerator() with arg_numNodes == 0: reset the ticker, offer "0"
GenerateZero ==
    /\ epc = "loaded"
    /\ \E r \in {foundTreeMember(
                    [EngineState EXCEPT !.app.skipDuplicate = 0, !.app.skipSize = 0,
                                        !.app.skipUnsafe = 0], "0")} :
           /\ calls' = calls + 1
           /\ IF r.e.fatal \/ r.e.aborted THEN Died(r.e)
              ELSE /\ Commit(r.e)
                   /\ ret' = IF r.ret THEN "true" ELSE "false"
                   /\ guardFired' = (guardFired \/ r.guard)
                   /\ epc' = "zero"
                   /\ progress' = 0
    /\ UNCHANGED runVars

\* membersFromGenerator() with arg_numNodes == 0: offer "a"
GenerateA ==
    /\ epc = "zero"
    /\ Call("a", "generated", "generated", 0)

\* --no-generate
NoGenerate ==
    /\ epc = "loaded"
    /\ epc' = "generated"
    /\ UNCHANGED <<members, memberIndex, signatures, pairs, freeMemberRoot, app,
                   pSafeScores, store, progress, ret, calls, guardFired, runVars>>

\* main(): "Check that all unsafe groups have no safe members"
RECURSIVE ChainHasSafe(_, _, _)
ChainHasSafe(mem, mid, fuel) ==
    IF mid = 0 \/ fuel = 0 \/ mid \notin DOMAIN mem THEN FALSE
    ELSE "SAFE" \in mem[mid].flags \/ ChainHasSafe(mem, mem[mid].nextMember, fuel - 1)

UnsafeGroupsClean(e) ==
    \A sid \in DOMAIN e.signatures \ {0} :
        "SAFE" \notin e.signatures[sid].flags =>
            ~ChainHasSafe(e.members, e.signatures[sid].firstMember, e.numMember)

\* main(): finaliseMembers() and the check that follows; the database is saved
FinaliseMembers ==
    /\ epc = "generated"
    /\ ~readOnlyMode
    /\ \E sorted \in qsortMembers(members, store.numMember) :
       \E e \in {finaliseSorted(EngineState, sorted)} :
              IF e.fatal \/ e.aborted THEN Died(e)
              ELSE IF ~UnsafeGroupsClean(e) THEN Died([e EXCEPT !.aborted = TRUE])
              ELSE /\ Commit(e)
                   /\ epc' = "finalised"
                   /\ progress' = e.numMember
                   /\ UNCHANGED <<ret, guardFired>>
    /\ UNCHANGED <<calls, runVars>>

\* a later invocation of genmember on the database the build has saved
NextRun ==
    /\ epc = "finalised"
    /\ runs < MaxRuns
    /\ runs' = runs + 1
    /\ readOnlyMode' \in BOOLEAN
    /\ optTruncate' \in BOOLEAN
    /\ members' = [i \in DOMAIN members |->
                      IF i < store.numMember THEN members[i] ELSE EmptyMember]
    /\ freeMemberRoot' = 0
    /\ app' = FreshApp(signatures)
    /\ pSafeScores' = InitialSafeScores(members, signatures)
    /\ progress' = 0 /\ epc' = "load" /\ ret' = "none" /\ guardFired' = FALSE
    /\ UNCHANGED <<planVars, store, memberIndex, signatures, pairs, calls, generation, optText>>

Next ==
    \/ \E name \in Candidates : LoadLine(name)
    \/ EndOfFile
    \/ GenerateZero
    \/ GenerateA
    \/ NoGenerate
    \/ FinaliseMembers
    \/ NextRun

Spec == Init /\ [][Next]_vars

\* the load loop of the earlier form of the engine
NextEarlier ==
    \/ \E name \in EarlierCandidates : LoadLine(name)
    \/ EndOfFile

SpecEarlier == InitEarlier /\ [][NextEarlier]_vars

-----------------------------------------------------------------------------
(* tinyTree_t: normaliseQTF and basicNode                                   *)
(* A reference is a node id, with IBIT added when it is inverted. Ids 0 is  *)
(* zero, KSTART .. NSTART-1 are the endpoints, NSTART .. NEND-1 the nodes.  *)

\* slots of a tree (MAXSLOTS, scaled down) and calls made on one tree
TreeSlots == 2
MaxTreeCalls == 2

TINYTREE_KSTART == 1
TINYTREE_MAXNODES == TreeSlots * 2
TINYTREE_NSTART == TINYTREE_KSTART + TreeSlots
TINYTREE_NEND == TINYTREE_NSTART + TINYTREE_MAXNODES

\* the inverter bit of a reference, above every node id of the model
IBIT == 64

IsInverted(x) == x >= IBIT
\* x ^ IBIT
Invert(x) == IF x >= IBIT THEN x - IBIT ELSE x + IBIT
\* x & ~IBIT
NodeId(x) == x % IBIT
\* x ^ ibit for ibit 0 or IBIT
XorBit(x, ibit) == IF ibit = 0 THEN x ELSE Invert(x)

\* tinyTree_t(flags) / clear(): no nodes
EmptyTree == [N |-> <<>>, count |-> TINYTREE_NSTART]

\* the node stored under id nid
NodeAt(t, nid) == t.N[nid - TINYTREE_NSTART + 1]

\* N is declared as N[TINYTREE_MAXNODES] and indexed by node id: ids from
\* TINYTREE_MAXNODES on lie past the end of the array
InArray(nid) == nid < TINYTREE_MAXNODES

\* a step of the normalisation: a finished reference, or the triple so far
Return(r) == [done |-> TRUE, ret |-> r, Q |-> 0, T |-> 0, F |-> 0, ibit |-> 0]
Triple(Q, T, F, ibit) == [done |-> FALSE, ret |-> 0, Q |-> Q, T |-> T, F |-> F, ibit |-> ibit]

\* "Level 1a - Inverts"
Level1a(Q, T, F) ==
    LET q == IF IsInverted(Q) THEN Triple(Invert(Q), F, T, 0) ELSE Triple(Q, T, F, 0)
    IN  IF q.Q = 0 THEN Return(q.F)
        ELSE IF IsInverted(q.F) THEN Triple(q.Q, Invert(q.T), Invert(q.F), IBIT)
        ELSE q

\* "Level 1b: Function grouping" and "level 1c: dyadic ordering", for a Q
\* and F that are not inverted
Level1b(Q, T, F) ==
    IF IsInverted(T)
    THEN IF T = IBIT
         THEN IF F = Q \/ F = 0 THEN Return(Q)
              ELSE IF Q > F THEN Triple(F, T, Q, 0) ELSE Triple(Q, T, F, 0)
         ELSE IF NodeId(T) = Q
         THEN IF F = Q \/ F = 0 THEN Return(0)
              ELSE Triple(F, T, 0, 0)
         ELSE IF F = Q \/ F = 0 THEN Triple(Q, T, 0, 0)
              ELSE IF NodeId(T) = F
              THEN IF Q > F THEN Triple(F, Invert(Q), Q, 0) ELSE Triple(Q, T, F, 0)
              ELSE Triple(Q, T, F, 0)
    ELSE IF T = 0
         THEN IF F = Q \/ F = 0 THEN Return(0)
              ELSE Triple(F, Invert(Q), 0, 0)
         ELSE IF T = Q
         THEN IF F = Q \/ F = 0 THEN Return(Q)
              ELSE IF Q > F THEN Triple(F, IBIT, Q, 0) ELSE Triple(Q, IBIT, F, 0)
         ELSE IF F = Q \/ F = 0
              THEN IF Q > T THEN Triple(T, Q, 0, 0) ELSE Triple(Q, T, 0, 0)
              ELSE IF T = F THEN Return(F)
              ELSE Triple(Q, T, F, 0)

\* an outcome of a call on the tree: the tree after it, the reference
\* returned, and whether an assertion ended the process
Outcome(t, r) == [tree |-> t, ret |-> r, aborted |-> FALSE]
Aborted(t) == [tree |-> t, ret |-> 0, aborted |-> TRUE]

\* the "sanity checking" of basicNode under MAGICMASK_PARANOID
SanityOK(flags, Q, T, F) ==
    /\ ~IsInverted(Q)
    /\ IsInverted(T) \/ ~flags.qntf
    /\ ~IsInverted(F)
    /\ Q # 0
    /\ T # 0
    /\ T # IBIT \/ F # 0
    /\ Q # NodeId(T)
    /\ Q # F
    /\ T # F
    /\ NodeId(T) # F \/ Q < F
    /\ F # 0 \/ IsInverted(T) \/ Q < T
    /\ T # IBIT \/ Q < F

\* a lookup that never finds a node: every call appends
basicNodeAppend(t, flags, Q, T, F) ==
    IF t.count >= TINYTREE_NEND THEN {Aborted(t)}
    ELSE {Outcome([N |-> Append(t.N, <<Q, T, F>>), count |-> t.count + 1], t.count)}

\* basicNode(Q, T, F): the outcomes of the lookup loop and the append. A
\* node inside the array compares as it was stored. A node past the end of
\* the array is read from memory that belongs to `root` and to whatever
\* follows the tree, so its comparison can go either way.
basicNode(t, flags, Q, T, F) ==
    LET ids       == TINYTREE_NSTART..(t.count - 1)
        stored(n) == InArray(n) /\ NodeAt(t, n) = <<Q, T, F>>
        first     == {n \in ids : (InArray(n) => stored(n))
                                  /\ \A m \in ids : m < n => ~stored(m)}
    IN  IF flags.paranoid /\ ~SanityOK(flags, Q, T, F) THEN {Aborted(t)}
        ELSE {Outcome(t, n) : n \in first}
                 \cup (IF \E n \in ids : stored(n) THEN {}
                       ELSE basicNodeAppend(t, flags, Q, T, F))

RECURSIVE normaliseQTF(_, _, _, _, _)
\* normaliseQTF(Q, T, F): the set of outcomes
normaliseQTF(t, flags, Q, T, F) ==
    IF flags.paranoid /\ ~(NodeId(Q) < t.count /\ NodeId(T) < t.count /\ NodeId(F) < t.count)
    THEN {Aborted(t)}
    ELSE Then(Level1a(Q, T, F), LAMBDA a :
         IF a.done THEN {Outcome(t, a.ret)}
         ELSE Then(Level1b(a.Q, a.T, a.F), LAMBDA b :
              IF b.done THEN {Outcome(t, XorBit(b.ret, a.ibit))}
              ELSE Then(IF flags.qntf /\ ~IsInverted(b.T)
                        THEN normaliseQTF(t, flags, b.Q, Invert(b.T), b.F)
                        ELSE {Outcome(t, Invert(b.T))}, LAMBDA inner :
                   UNION {IF i.aborted THEN {i}
                          ELSE {[o EXCEPT !.ret = IF o.aborted THEN 0 ELSE XorBit(@, a.ibit)] :
                                   o \in basicNode(i.tree, flags, b.Q, Invert(i.ret), b.F)} :
                          i \in inner})))

\* the references a caller can pass: zero, an endpoint or a node of the
\* tree, plain or inverted
Refs(t) == {x \in 0..(IBIT + t.count - 1) : NodeId(x) < t.count}

NotTwice == [ret1 |-> 0, count1 |-> 0, ret2 |-> 0, count2 |-> 0]

\* no parser has run on the tree
NoParse ==
    [mode |-> "none", stack |-> <<>>, beenThere |-> <<>>, nextNode |-> 0,
     len |-> 0, err |-> "", root |-> 0, wild |-> FALSE, early |-> FALSE]

treeFrame == <<planOwn, readOnlyMode, store, engOwn, sigVars>>

\* a tree is constructed with the flags of the context
InitTree ==
    /\ PlannerIdle /\ readOnlyMode = FALSE /\ store = EmptyStore
    /\ EngineIdle
    /\ SignalIdle
    /\ tree = EmptyTree
    /\ treeFlags \in [qntf : BOOLEAN, paranoid : BOOLEAN]
    /\ tpc = "ready" /\ twice = NotTwice /\ treeCalls = 0
    /\ parse = NoParse

\* one call normaliseQTF(Q, T, F)
AddNode ==
    /\ tpc \in {"ready", "checked"}
    /\ treeCalls < MaxTreeCalls
    /\ \E Q, T, F \in Refs(tree) :
          \E r \in normaliseQTF(tree, treeFlags, Q, T, F) :
              /\ tree' = r.tree
              /\ tpc' = IF r.aborted THEN "aborted" ELSE "ready"
    /\ twice' = NotTwice
    /\ treeCalls' = treeCalls + 1
    /\ UNCHANGED <<treeFlags, parse, treeFrame>>

\* two calls normaliseQTF(Q, T, F) in a row with the same arguments
AddNodeTwice ==
    /\ tpc \in {"ready", "checked"}
    /\ treeCalls < MaxTreeCalls
    /\ \E Q, T, F \in Refs(tree) :
          \E r1 \in normaliseQTF(tree, treeFlags, Q, T, F) :
              IF r1.aborted
              THEN tree' = r1.tree /\ tpc' = "aborted" /\ twice' = NotTwice
              ELSE \E r2 \in normaliseQTF(r1.tree, treeFlags, Q, T, F) :
                      /\ tree' = r2.tree
                      /\ tpc' = IF r2.aborted THEN "aborted" ELSE "checked"
                      /\ twice' = IF r2.aborted THEN NotTwice
                                  ELSE [ret1 |-> r1.ret, count1 |-> r1.tree.count,
                                        ret2 |-> r2.ret, count2 |-> r2.tree.count]
    /\ treeCalls' = treeCalls + 1
    /\ UNCHANGED <<treeFlags, parse, treeFrame>>

\* clear(): rewind the first free node
ClearTree ==
    /\ tpc \in {"ready", "checked"}
    /\ tree # EmptyTree
    /\ tree' = EmptyTree
    /\ tpc' = "ready"
    /\ twice' = NotTwice
    /\ UNCHANGED <<treeFlags, treeCalls, parse, treeFrame>>

(* tinyTree_t: decodeSafe and decodeFast                                    *)
(* A notation is read one character at a time. `parse` holds the locals of  *)
(* the running parser: the stack (its live entries, bottom first),          *)
(* beenThere[] with -1 for an entry never written, nextNode, the number of  *)
(* characters read, the error code returned and the root stored; `wild`     *)
(* records an access outside the arrays of the parser, `early` a            *)
(* back-reference digit larger than the number of nodes saved so far.       *)

\* longest notation offered to a parser
MaxNameLen == 5

TINYTREE_MAXSTACK == (3 + 1) * TINYTREE_MAXNODES

\* the endpoints of the default skin ("abcdefghi", scaled to the slots of
\* the model) and the first lowercase letter after them
SkinLetters == <<"a", "b">>
BeyondSkin == "c"
\* back-reference digits; the largest is below TINYTREE_NSTART, as '9' is
BackRefs == <<"1", "2">>
Dyadics == {">", "+", "^", "&", "<"}
Triadics == {"!", "?"}
\* the characters of a notation; "#" is any character without a case
NameChars == {"0", "a", "b", BeyondSkin, "1", "2", "~", "/", " ", "#"}
                 \cup Dyadics \cup Triadics

IndexOf(seq, ch) == CHOOSE k \in 1..Len(seq) : seq[k] = ch
InSeq(seq, ch) == \E k \in 1..Len(seq) : seq[k] = ch

\* islower(), isalnum()
IsLower(ch) == InSeq(SkinLetters, ch) \/ ch = BeyondSkin
IsAlnum(ch) == IsLower(ch) \/ ch = "0" \/ InSeq(BackRefs, ch)

\* values a read of memory the parser never wrote can give: zero, and a
\* reference no tree holds
Garbage == {0, TINYTREE_NEND}

\* the operands an operator hands on, from the entries it pops (s, in the
\* order they were pushed)
OperatorTriple(ch, s) ==
    CASE ch = ">" -> <<s[1], Invert(s[2]), 0>>
      [] ch = "+" -> <<s[1], IBIT, s[2]>>
      [] ch = "^" -> <<s[1], Invert(s[2]), s[2]>>
      [] ch = "&" -> <<s[1], s[2], 0>>
      [] ch = "<" -> <<s[1], 0, s[2]>>
      [] ch = "!" -> <<s[1], Invert(s[2]), s[3]>>
      [] ch = "?" -> <<s[1], s[2], s[3]>>

Arity(ch) == IF ch \in Triadics THEN 3 ELSE 2

\* the last n entries of a stack, and the stack without them
TopN(s, n) == SubSeq(s, Len(s) - n + 1, Len(s))
PopN(s, n) == SubSeq(s, 1, Len(s) - n)

\* the locals of a parser at its first character
StartParse(mode) ==
    [mode |-> mode, stack |-> <<>>,
     beenThere |-> [i \in 0..(TINYTREE_NEND - 1) |-> 0 - 1],
     nextNode |-> TINYTREE_NSTART, len |-> 0, err |-> "", root |-> 0, wild |-> FALSE,
     early |-> FALSE]

\* a step of a parser: the tree and locals after it, and where it stands
Step(t, p, at) == [tree |-> t, parse |-> p, at |-> at]
Fail(t, p, code) == Step(t, [p EXCEPT !.err = code], "failed")

\* beenThere[ix] holds the id of a node; as an operand it gives what was
\* saved there, or whatever the memory holds when nothing was
Saved(p, ix) == ix \in DOMAIN p.beenThere /\ p.beenThere[ix] >= 0

ReadBeenThere(p, ix) == IF Saved(p, ix) THEN {p.beenThere[ix]} ELSE Garbage

\* beenThere[ix] = nid; an index past the array writes outside it
WriteBeenThere(p, ix, nid) ==
    IF ix \in DOMAIN p.beenThere THEN [p EXCEPT !.beenThere[ix] = nid]
    ELSE [p EXCEPT !.wild = TRUE]

\* decodeSafe: an operator of `arity` operands
SafeOperator(t, flags, p, ch) ==
    IF Len(p.stack) < Arity(ch) THEN {Fail(t, p, "DERR_UNDERFLOW")}
    ELSE Then(OperatorTriple(ch, TopN(p.stack, Arity(ch))), LAMBDA qtf :
         Then(PopN(p.stack, Arity(ch)), LAMBDA rest :
           {IF o.aborted THEN Step(o.tree, p, "aborted")
            ELSE IF ch = "<"
            THEN \* beenThere[stackPos++] = nid: the entry popped last is
                 \* on the stack again and nextNode stays
                 Step(o.tree,
                      [WriteBeenThere(p, Len(rest) + 1, o.ret) EXCEPT
                          !.stack = rest \o <<o.ret, p.stack[Len(p.stack)]>>],
                      "parsing")
            ELSE Step(o.tree,
                      [WriteBeenThere(p, p.nextNode, o.ret) EXCEPT
                          !.stack = Append(rest, o.ret),
                          !.nextNode = p.nextNode + 1],
                      "parsing") :
            o \in normaliseQTF(t, flags, qtf[1], qtf[2], qtf[3])}))

\* decodeSafe: one character of the notation
decodeSafeChar(t, flags, p0, ch) ==
    Then([p0 EXCEPT !.len = @ + 1], LAMBDA p :
        IF IsAlnum(ch) /\ Len(p.stack) >= TINYTREE_MAXSTACK THEN {Fail(t, p, "DERR_OVERFLOW")}
        ELSE IF ~IsAlnum(ch) /\ t.count >= TINYTREE_NEND - 1 THEN {Fail(t, p, "DERR_SIZE")}
        ELSE IF IsLower(ch) /\ ~InSeq(SkinLetters, ch) THEN {Fail(t, p, "DERR_PLACEHOLDER")}
        ELSE IF ch = "0" THEN {Step(t, [p EXCEPT !.stack = Append(@, 0)], "parsing")}
        ELSE IF InSeq(SkinLetters, ch)
        THEN {Step(t, [p EXCEPT !.stack = Append(@, TINYTREE_KSTART + IndexOf(SkinLetters, ch) - 1)],
                   "parsing")}
        ELSE IF InSeq(BackRefs, ch)
        THEN {Step(t, [p EXCEPT !.stack = Append(@, v),
                                !.early = @ \/ ~Saved(p, p.nextNode - IndexOf(BackRefs, ch))],
                   "parsing") :
                 v \in ReadBeenThere(p, p.nextNode - IndexOf(BackRefs, ch))}
        ELSE IF ch \in Dyadics \cup Triadics THEN SafeOperator(t, flags, p, ch)
        ELSE IF ch = "~"
        THEN IF Len(p.stack) < 1 THEN {Fail(t, p, "DERR_UNDERFLOW")}
             ELSE {Step(t, [p EXCEPT !.stack[Len(p.stack)] = Invert(@)], "parsing")}
        ELSE IF ch = "/" THEN {Step(t, p, "skin")}
        ELSE IF ch = " " THEN {Step(t, p, "parsing")}
        ELSE {Fail(t, p, "DERR_SYNTAX")})

\* decodeSafe: the end of the notation
decodeSafeEnd(t, p) ==
    IF Len(p.stack) # 1 THEN Fail(t, p, "DERR_INCOMPLETE")
    ELSE Step(t, [p EXCEPT !.root = p.stack[1], !.err = "DERR_OK"], "parsed")

\* decodeFast: the node an operator stores, literally; entries the stack
\* does not hold are read from the memory in front of it
FastOperator(t, p, ch) ==
    LET missing == IF Len(p.stack) < Arity(ch) THEN Arity(ch) - Len(p.stack) ELSE 0
        have    == Arity(ch) - missing
    IN  {Then(OperatorTriple(ch, pad \o TopN(p.stack, have)), LAMBDA qtf :
            Step([N |-> Append(t.N, qtf), count |-> t.count + 1],
                 [p EXCEPT !.stack = Append(PopN(p.stack, have), t.count),
                           !.wild = @ \/ missing > 0],
                 IF missing > 0 THEN "wild" ELSE "parsing")) :
         pad \in [1..missing -> Garbage]}

\* decodeFast: one character of the notation
decodeFastChar(t, p0, ch) ==
    Then([p0 EXCEPT !.len = @ + 1], LAMBDA p :
        IF ch = "0" THEN {Step(t, [p EXCEPT !.stack = Append(@, 0)], "parsing")}
        ELSE IF InSeq(SkinLetters, ch)
        THEN {Step(t, [p EXCEPT !.stack = Append(@, TINYTREE_KSTART + IndexOf(SkinLetters, ch) - 1)],
                   "parsing")}
        ELSE IF ch = BeyondSkin
        THEN \* KSTART + pSkin[k] - 'a' for the terminator of the skin: a
             \* wrapped value with the inverter bit and no node behind it
             {Step(t, [p EXCEPT !.stack = Append(@, Invert(TINYTREE_NEND))], "parsing")}
        ELSE IF InSeq(BackRefs, ch)
        THEN {Step(t, [p EXCEPT !.stack = Append(@, t.count - IndexOf(BackRefs, ch)),
                                !.early = @ \/ t.count - IndexOf(BackRefs, ch) < TINYTREE_NSTART],
                   "parsing")}
        ELSE IF ch \in Dyadics \cup Triadics THEN FastOperator(t, p, ch)
        ELSE IF ch = "~"
        THEN IF Len(p.stack) < 1 THEN {Step(t, [p EXCEPT !.wild = TRUE], "wild")}
             ELSE {Step(t, [p EXCEPT !.stack[Len(p.stack)] = Invert(@)], "parsing")}
        ELSE IF ch = "/" THEN {Step(t, p, "skin")}
        ELSE {Step(t, p, "parsing")})

\* decodeFast: the root is the top of the stack
decodeFastEnd(t, p) ==
    IF Len(p.stack) < 1
    THEN {Step(t, [p EXCEPT !.root = g, !.wild = TRUE], "wild") : g \in Garbage}
    ELSE {Step(t, [p EXCEPT !.root = p.stack[Len(p.stack)]], "parsed")}

\* decodeSafe(pName) / decodeFast(pName) is entered: the tree is rewound
DecodeBegin ==
    /\ tpc \in {"ready", "checked", "parsed", "failed"}
    /\ treeCalls < MaxTreeCalls
    /\ \E mode \in {"safe", "fast"} : parse' = StartParse(mode)
    /\ tree' = EmptyTree
    /\ tpc' = "parsing"
    /\ twice' = NotTwice
    /\ treeCalls' = treeCalls + 1
    /\ UNCHANGED <<treeFlags, treeFrame>>

\* the loop over the notation reads one more character
DecodeChar ==
    /\ tpc = "parsing"
    /\ parse.len < MaxNameLen
    /\ \E ch \in NameChars :
          \E r \in IF parse.mode = "safe"
                   THEN decodeSafeChar(tree, treeFlags, parse, ch)
                   ELSE decodeFastChar(tree, parse, ch) :
              /\ tree' = r.tree
              /\ parse' = r.parse
              /\ tpc' = r.at
    /\ UNCHANGED <<treeFlags, twice, treeCalls, treeFrame>>

\* the notation ends, or the rest of it is a skin
DecodeEnd ==
    /\ tpc \in {"parsing", "skin"}
    /\ \E r \in IF parse.mode = "safe"
                THEN {decodeSafeEnd(tree, parse)}
                ELSE decodeFastEnd(tree, parse) :
          /\ tree' = r.tree
          /\ parse' = r.parse
          /\ tpc' = r.at
    /\ UNCHANGED <<treeFlags, twice, treeCalls, treeFrame>>

NextTree ==
    \/ AddNode
    \/ AddNodeTwice
    \/ ClearTree
    \/ DecodeBegin
    \/ DecodeChar
    \/ DecodeEnd

SpecTree == InitTree /\ [][NextTree]_vars

-----------------------------------------------------------------------------
(* Properties of the planner and of the writes that follow it *)

\* the planner has returned without ctx.fatal()
PlannerDone == ppc = "sized"

\* C3: the engine writes a section only when the output database owns it
\* (the section is in allocFlags), for every plan of a run without copy-on-write
C3_WritesOnlyOwned == ~copyOnWrite => foreignWrites = {}

\* C4: when the planner returns without a fatal error, every data section's
\* output capacity is at least the input's occupancy
C4_OutputFitsInput ==
    PlannerDone =>
        /\ store.maxSignature >= db.numSignature
        /\ store.maxHint >= db.numHint
        /\ store.maxImprint >= db.numImprint
        /\ store.maxMember >= db.numMember

\* C5: at planner exit a data section whose capacity exceeds the input's
\* occupancy is not inherited, copy-on-write or not
C5_GrownNotInherited ==
    PlannerDone =>
        /\ store.maxSignature > db.numSignature => "SIGNATURE" \notin inheritSections
        /\ store.maxHint > db.numHint => "HINT" \notin inheritSections
        /\ store.maxImprint > db.numImprint => "IMPRINT" \notin inheritSections
        /\ store.maxMember > db.numMember => "MEMBER" \notin inheritSections

\* C6: at planner exit inheritSections and rebuildSections are disjoint and every
\* index whose chosen size differs from the input's is in rebuildSections
C6_MasksDisjoint ==
    PlannerDone =>
        /\ inheritSections \cap rebuildSections = {}
        /\ store.signatureIndexSize # db.signatureIndexSize
              => "SIGNATUREINDEX" \in rebuildSections
        /\ store.hintIndexSize # db.hintIndexSize => "HINTINDEX" \in rebuildSections
        /\ store.imprintIndexSize # db.imprintIndexSize
              => "IMPRINTINDEX" \in rebuildSections
        /\ store.memberIndexSize # db.memberIndexSize => "MEMBERINDEX" \in rebuildSections

\* a plan that resizes the index of an input that has one
C6_Witness ==
    /\ PlannerDone
    /\ db.imprintIndexSize # 0
    /\ store.imprintIndexSize # db.imprintIndexSize
    /\ "IMPRINTINDEX" \in rebuildSections

\* C7: whenever the chosen interleave differs from the input's, IMPRINT is in
\* rebuildSections at planner exit
C7_InterleaveRebuilds ==
    (PlannerDone /\ store.interleave # db.interleave) => "IMPRINT" \in rebuildSections

\* a plan that changes the interleave of an input that has imprints
C7_Witness ==
    /\ PlannerDone
    /\ db.interleave # 0
    /\ store.interleave # db.interleave
    /\ "IMPRINT" \in rebuildSections

\* C9: for every section the planner sizes, the chosen index size is strictly
\* greater than the chosen data capacity
C9_IndexExceedsData ==
    PlannerDone =>
        /\ store.maxSignature > 0 => store.signatureIndexSize > store.maxSignature
        /\ store.maxHint > 0 => store.hintIndexSize > store.maxHint
        /\ store.maxImprint > 0 => store.imprintIndexSize > store.maxImprint
        /\ store.maxMember > 0 => store.memberIndexSize > store.maxMember

-----------------------------------------------------------------------------
(* Properties of the member engine *)

\* foundTreeMember() can be called next, or the build has been finalised
BetweenCalls == epc \in {"load", "loaded", "zero", "generated", "finalised"}

\* a component of a tree resolves to a SAFE member of the final index
ResolvesSafe(comp) ==
    LET mid == ResolveName(members, memberIndex, comp)
    IN  mid > 0 /\ "SAFE" \in members[mid].flags

\* every Q, T, F and head of the tree resolves to a SAFE member
ComponentsSafe(name) ==
    LET tr == Tree(name)
    IN  \/ tr.kind # "node"
        \/ /\ ResolvesSafe(tr.Q)
           /\ ResolvesSafe(tr.T)
           /\ tr.F.fast = "" \/ ResolvesSafe(tr.F)
           /\ \A k \in 1..Len(tr.heads) : ResolvesSafe(tr.heads[k])

\* C1: after finalisation a member is SAFE if and only if each of its Q, T, F
\* components and every head resolves to a member that is itself SAFE.
C1_SafeIffComponentsSafe ==
    epc = "finalised" =>
        \A i \in 1..(store.numMember - 1) :
            "SAFE" \in members[i].flags <=> ComponentsSafe(members[i].name)

\* signature sid is SAFE exactly when its chain holds a SAFE member
SafeIffChain(sid) ==
    "SAFE" \in signatures[sid].flags
        <=> ChainHasSafe(members, signatures[sid].firstMember, Cardinality(DOMAIN members))

\* C2 (as stated): between calls of the engine and after finalisation a
\* signature is SAFE if and only if its member chain holds a SAFE member.
C2_SafeIffChain ==
    BetweenCalls => \A sid \in DOMAIN signatures \ {0} : SafeIffChain(sid)

\* C2 (amended): in a build that is not read-only, between calls of the engine
\* and after finalisation, a signature is SAFE if and only if its member chain
\* holds a SAFE member.
C2_WritableSafeIffChain ==
    (BetweenCalls /\ ~readOnlyMode) => \A sid \in DOMAIN signatures \ {0} : SafeIffChain(sid)

\* a writable build promoted a group that held unsafe members, and another
\* group is still unsafe with a member in its chain
C2_Witness ==
    /\ BetweenCalls /\ ~readOnlyMode
    /\ freeMemberRoot # 0
    /\ \E sid \in DOMAIN signatures \ {0} :
          "SAFE" \in signatures[sid].flags /\ Tree(members[signatures[sid].firstMember].name).kind = "node"
    /\ \E sid \in DOMAIN signatures \ {0} :
          "SAFE" \notin signatures[sid].flags /\ signatures[sid].firstMember # 0

\* C8: while the build runs and after it the member name index keeps at least
\* one empty slot (numMember stays within maxMember throughout).
C8_IndexHasEmptySlot ==
    (BetweenCalls /\ store.numMember <= store.maxMember) =>
        \E ix \in DOMAIN memberIndex : memberIndex[ix] = 0

\* what a call of foundTreeMember(name) would do in the current state
IgnoredCall(e, name) ==
    LET r == foundTreeMember(e, name)
    IN  ~r.ret /\ r.e = e

\* C10: once the overflow guard has returned false in a build, every later
\* call of foundTreeMember in that build returns false and changes nothing.
C10_TruncationLatches ==
    guardFired =>
        /\ epc = "loaded" =>
              IgnoredCall([EngineState EXCEPT !.app.skipDuplicate = 0, !.app.skipSize = 0,
                                              !.app.skipUnsafe = 0], "0")
        /\ epc = "zero" => IgnoredCall(EngineState, "a")

\* the loader prints "WARNING: Signature/Imprint storage full. Truncating at
\* progress=... <name>" after its loop exactly when `truncated` is non-zero
TruncationWarned == app.truncated # 0

\* C11: with --truncate, when the overflow guard stopped the load loop the
\* call returned false, and the loader warns and names a candidate; the
\* build has not died.
C11_StopIsWarned ==
    (guardFired /\ epc = "loaded") =>
        /\ ret = "false"
        /\ TruncationWarned
        /\ app.truncatedName \in Candidates

\* the build loop can still call foundTreeMember
CallPending == epc \in {"load", "loaded", "zero"}

\* the notations the next call can carry: a line of the load file, then
\* "0" and "a" from membersFromGenerator()
Offered ==
    IF epc = "load" THEN Candidates ELSE IF epc = "loaded" THEN {"0"} ELSE {"a"}

\* the member name index holds the name
NamePresent(name) ==
    LET mix == lookupMember(members, memberIndex, name)
    IN  mix < IndexSlots(memberIndex) /\ memberIndex[mix] # 0

\* a call of foundTreeMember(name) in state e returns true and changes
\* skipDuplicate by one and nothing else
DuplicateCounted(e, name) ==
    LET r == foundTreeMember(e, name)
    IN  r.ret /\ r.e = [e EXCEPT !.app.skipDuplicate = @ + 1]

\* C12 as stated: a call with a name the member index holds adds one to
\* skipDuplicate, returns true and changes nothing else.
C12_DuplicateOnlyCounts ==
    CallPending =>
        \A name \in Offered : NamePresent(name) => DuplicateCounted(EngineState, name)

\* C12 amended: the same, for calls made while no truncation is latched.
C12_UnlatchedDuplicateOnlyCounts ==
    (CallPending /\ app.truncated = 0) =>
        \A name \in Offered : NamePresent(name) => DuplicateCounted(EngineState, name)

\* a duplicate has been counted in this build and the index holds names
C12_Witness ==
    /\ epc = "load" /\ ret = "true" /\ app.truncated = 0
    /\ app.skipDuplicate > 0
    /\ \E name \in Offered : NamePresent(name) /\ DuplicateCounted(EngineState, name)

\* a first, writable build without --truncate on the database a 0-node
\* signature build leaves (signatures "0" and "a", no members)
ZeroNodeBuild ==
    /\ runs = 1 /\ ~readOnlyMode /\ ~optTruncate
    /\ DOMAIN signatures = ZeroNodeSigIds

\* exactly the members "0" (signature 1) and "a" (signature 2), members and
\* groups SAFE, no group empty or unsafe
ZeroNodeMembers ==
    /\ store.numMember = 3
    /\ \E i, j \in 1..2 :
          /\ i # j
          /\ members[i].name = "0" /\ members[i].sid = 1 /\ "SAFE" \in members[i].flags
          /\ members[j].name = "a" /\ members[j].sid = 2 /\ "SAFE" \in members[j].flags
          /\ signatures[1].firstMember = i /\ signatures[2].firstMember = j
          /\ members[i].nextMember = 0 /\ members[j].nextMember = 0
    /\ "SAFE" \in signatures[1].flags /\ "SAFE" \in signatures[2].flags
    /\ app.numEmpty = 0 /\ app.numUnsafe = 0

\* C13: a 0-node build from a database without members has exactly the
\* members "0" and "a" when membersFromGenerator() returns, and
\* finaliseMembers() ends the build with the same.
C13_ZeroNodeBuildEnds ==
    [][/\ (ZeroNodeBuild /\ epc = "zero" /\ epc' = "generated") => ZeroNodeMembers'
       /\ (ZeroNodeBuild /\ ZeroNodeMembers /\ epc = "generated" /\ epc' \in {"finalised", "fatal", "aborted"})
             => (epc' = "finalised" /\ ZeroNodeMembers')]_vars

\* the build of nothing but the two generator calls has ended
C13_Witness ==
    ZeroNodeBuild /\ epc = "finalised" /\ calls = 2 /\ ZeroNodeMembers

RECURSIVE ChainEnds(_, _, _)
\* following nextMember from member mid stays on members of signature sid
\* and reaches 0 within `fuel` steps
ChainEnds(mid, sid, fuel) ==
    IF mid = 0 THEN TRUE
    ELSE IF fuel = 0 \/ mid \notin 1..(store.numMember - 1) THEN FALSE
    ELSE members[mid].sid = sid /\ ChainEnds(members[mid].nextMember, sid, fuel - 1)

\* every chain starts at a member of its signature, ends at 0 and holds no
\* member twice; with at most numMember-1 members a longer walk is a cycle
ChainsWellFormed ==
    \A sid \in DOMAIN signatures \ {0} :
        ChainEnds(signatures[sid].firstMember, sid, store.numMember)

\* C14 as stated: after every call of foundTreeMember and after finalisation
\* every non-empty group has a well-formed member chain.
C14_ChainsWellFormed == BetweenCalls => ChainsWellFormed

\* C14 amended: the same for builds that are not read-only.
C14_WritableChainsWellFormed == (BetweenCalls /\ ~readOnlyMode) => ChainsWellFormed

\* a chain of two members after a group flush: a record of the chain was
\* taken from the free list, so two slots of the index name it
C14_Witness ==
    /\ BetweenCalls /\ ~readOnlyMode /\ ret = "true"
    /\ \E sid \in DOMAIN signatures \ {0} :
          /\ signatures[sid].firstMember # 0
          /\ members[signatures[sid].firstMember].nextMember # 0
          /\ \E ix, iy \in DOMAIN memberIndex :
                ix # iy /\ memberIndex[ix] = memberIndex[iy]
                        /\ memberIndex[ix] = signatures[sid].firstMember

\* the build loop of a writable build, before finaliseMembers()
InBuildLoop == epc \in {"load", "loaded", "zero", "generated"} /\ ~readOnlyMode

\* the member ids member i refers to through its tails and heads
References(i) ==
    {PairMid(pairs, members[i][f]) : f \in {g \in {"Qmt", "Tmt", "Fmt"} : members[i][g] # 0}}
        \cup {members[i].heads[k] : k \in 1..Len(members[i].heads)}

\* C15: during the build loop every tail and head of an admitted member
\* names a member with a lower id than its own.
C15_ReferencesPointBack ==
    InBuildLoop =>
        \A i \in 1..(store.numMember - 1) :
            members[i].sid # 0 => \A b \in References(i) : b < i

\* C16: within a build, before finaliseMembers() runs, a step of the build
\* loop leaves every existing member record as it is and hands out only
\* the next unused member id.
C16_AppendOnly ==
    [][(InBuildLoop /\ epc' \in {"load", "loaded", "zero", "generated"}) =>
          /\ \A i \in 1..(store.numMember - 1) : members'[i] = members[i]
          /\ store'.numMember \in {store.numMember, store.numMember + 1}]_vars

\* the members of signature sid
MembersOf(sid) == {i \in 1..(store.numMember - 1) : members[i].sid = sid}

CallReturned == calls' = calls + 1 /\ epc' \notin {"fatal", "aborted"}

\* C18: in read-only mode a call of foundTreeMember writes no member, no
\* slot of the member index and no pair, and changes a signature at most
\* by setting its firstMember to the dummy value 1.
C18_ReadOnlyCallWritesNothing ==
    [][(readOnlyMode /\ CallReturned) =>
          /\ members' = members /\ store' = store /\ freeMemberRoot' = freeMemberRoot
          /\ memberIndex' = memberIndex
          /\ pairs' = pairs
          /\ \A sid \in DOMAIN signatures :
                signatures'[sid] \in {signatures[sid],
                                      [signatures[sid] EXCEPT !.firstMember = 1]}]_vars

\* the tails of a tree: Q, T and, when it differs from T, F
TailsOf(name) ==
    IF Tree(name).kind # "node" THEN {}
    ELSE {Tree(name).Q, Tree(name).T} \cup
         (IF Tree(name).F.fast = "" THEN {} ELSE {Tree(name).F})

\* some tail of the tree is no member, or an unsafe one
TailMissing(name) ==
    \E c \in TailsOf(name) :
        LET mid == ResolveName(members, memberIndex, c)
        IN  mid <= 0 \/ "SAFE" \notin members[mid].flags

\* C19: no member of a group is a candidate with a tail that is absent
\* from the member index or unsafe; such a candidate is never admitted.
C19_MissingTailRejected ==
    InBuildLoop =>
        \A i \in 1..(store.numMember - 1) :
            members[i].sid # 0 => ~TailMissing(members[i].name)

\* C20: two calls of normaliseQTF with the same Q, T, F on the same tree
\* return the same reference, and the second leaves count as it was.
C20_AddNodeIdempotent ==
    tpc = "checked" => (twice.ret2 = twice.ret1 /\ twice.count2 = twice.count1)

\* the operands of node nid lie below it
Ordered(t, nid) ==
    /\ NodeAt(t, nid)[1] < nid
    /\ NodeId(NodeAt(t, nid)[2]) < nid
    /\ NodeAt(t, nid)[3] < nid

\* C21: every node stored in a tree, by normaliseQTF or by a parser, has
\* Q, T without its inverter bit, and F below its own id
C21_OperandsBelowNode ==
    \A nid \in TINYTREE_NSTART..(tree.count - 1) : Ordered(tree, nid)

\* the safe parser has returned DERR_OK
SafeParsed == parse.mode = "safe" /\ tpc = "parsed"

\* C22: the safe parser returns an error code for a notation with a
\* back-reference digit larger than the number of nodes created so far, and
\* it never stores a node or a saved id outside its arrays
C22_SafeParserRejects ==
    parse.mode = "safe" =>
        /\ tpc = "parsed" => ~parse.early
        /\ ~parse.wild
        /\ \A nid \in TINYTREE_NSTART..(tree.count - 1) : InArray(nid)

\* transform t is k * step + u for a stored id k * step, k < numStored, and
\* a probe id u < step
Reaches(numStored, step, t) ==
    \E k \in {t \div step} : k < numStored /\ t - k * step \in 0..(step - 1)

\* the first and last transform of the first, second and last block of probes
TransformSamples(step) ==
    {t \in {0, step - 1, step, 2 * step - 1,
            MAXTRANSFORM - step, MAXTRANSFORM - 1} : t \in 0..(MAXTRANSFORM - 1)}

\* (numStored, interleaveStep) is a divisor pair of 9! whose stored and
\* probed ids reach the transforms at the edges of every block
CoversTransforms(numStored, step) ==
    /\ numStored * step = MAXTRANSFORM
    /\ \A t \in TransformSamples(step) : Reaches(numStored, step, t)

\* the planner has written the interleave of the output database
InterleaveSelected == ppc \notin {"start", "setup", "fatal"} /\ store.interleave # 0

Populated == ppc \in {"rebuilt", "built", "done"}

\* a data section of the output database holds at least its reserved entry
Reserved(max, num) == max > 0 => num >= 1

\* C24: after the populator and the rebuild of sections every data section
\* of the output database has num >= 1
C24_ReservedEntryKept ==
    Populated =>
        /\ Reserved(store.maxSignature, store.numSignature)
        /\ Reserved(store.maxHint, store.numHint)
        /\ Reserved(store.maxImprint, store.numImprint)
        /\ Reserved(store.maxMember, store.numMember)

\* C25: the handler of SIGINT / SIGHUP, installed while the output database
\* is written, removes the output file and ends the process; the timer
\* signal only adds one to the tick counter; neither changes the state of
\* the engine or of the database
C25_SignalsKeepState ==
    [][/\ sigintHandler =>
            /\ outputFile' = "removed" /\ ppc' = "exit"
            /\ UNCHANGED <<store, db, allocFlags, inheritSections, rebuildSections, engVars>>
       /\ SigAlarm =>
            /\ tick' = tick + 1 /\ ppc' = ppc /\ outputFile' = outputFile
            /\ UNCHANGED <<store, db, allocFlags, inheritSections, rebuildSections, engVars>>]_vars

\* the file was removed by the handler after the timer had ticked while it
\* was written
C25_Witness == outputFile = "removed" /\ ppc = "exit" /\ tick > 0

\* the candidate `name` gets as far as the challenge of foundTreeMember:
\* it is new, the guard lets it pass, a signature matches and the size fits
Challenged(name) ==
    LET mix == lookupMember(members, memberIndex, name)
        tr  == lookupImprintAssociative(signatures, name)
    IN  /\ app.truncated = 0
        /\ mix # IndexSlots(memberIndex)
        /\ memberIndex[mix] = 0
        /\ ~OverflowGuard
        /\ tr.sid # 0
        /\ ~earlyReject(signatures[tr.sid].flags, tr.size,
                        pSafeScores[tr.sid], SigSize(tr.sid))

\* what findHeadTail makes of the candidate in the current state
Probed(name) ==
    findHeadTail(members, memberIndex, pairs,
                 [EmptyMember EXCEPT !.name = name,
                                     !.sid = lookupImprintAssociative(signatures, name).sid], 0)

\* the signature group of the candidate
GroupOf(name) == lookupImprintAssociative(signatures, name).sid

\* the call ended the process (storage full or a failed assertion)
DiedInCall == epc' \in {"fatal", "aborted"}

\* the candidate heads the chain of its group after the call
AcceptedAfter(name) ==
    LET sid == GroupOf(name)
    IN  IF readOnlyMode THEN signatures'[sid].firstMember = 1
        ELSE /\ signatures'[sid].firstMember # 0
             /\ members'[signatures'[sid].firstMember].name = name
             /\ members'[signatures'[sid].firstMember].sid = sid

\* C26: for a candidate that passed the size reject the outcome follows from
\* (group SAFE?, candidate SAFE?): safe/safe and unsafe/unsafe accept; unsafe
\* group and safe candidate accept and make the group SAFE; safe group and
\* unsafe candidate reject, add one to skipUnsafe and change nothing else
C26_ChallengeOutcome ==
    [][\A name \in Candidates :
          (LoadLine(name) /\ Challenged(name) /\ ~Probed(name).fatal /\ ~DiedInCall) =>
              LET sid   == GroupOf(name)
                  group == "SAFE" \in signatures[sid].flags
                  cand  == "SAFE" \in Probed(name).m.flags
              IN  IF group /\ ~cand
                  THEN /\ app' = [app EXCEPT !.skipUnsafe = @ + 1]
                       /\ UNCHANGED <<members, memberIndex, signatures, pairs,
                                      freeMemberRoot, pSafeScores, store>>
                  ELSE /\ AcceptedAfter(name)
                       /\ app'.skipUnsafe = app.skipUnsafe
                       /\ (~group /\ cand) => "SAFE" \in signatures'[sid].flags
                       /\ (~group /\ ~cand) => "SAFE" \notin signatures'[sid].flags]_vars

\* the candidate `name` gets as far as the early reject of foundTreeMember
ReachesReject(name) ==
    LET mix == lookupMember(members, memberIndex, name)
    IN  /\ app.truncated = 0
        /\ mix # IndexSlots(memberIndex)
        /\ memberIndex[mix] = 0
        /\ ~OverflowGuard
        /\ GroupOf(name) # 0

\* the call counted a size reject and changed nothing else
SizeRejected ==
    /\ app' = [app EXCEPT !.skipSize = @ + 1]
    /\ UNCHANGED <<members, memberIndex, signatures, pairs, freeMemberRoot,
                   pSafeScores, store>>

\* C27 as stated: with sizeR the node count of the candidate, a candidate
\* for a SAFE signature is rejected when sizeR > safeScore[sid], one for an
\* unsafe signature when sizeR > signature.size + 1; the rejection adds one
\* to skipSize and changes no other state
C27_SizeReject ==
    [][\A name \in EarlierCandidates :
          (LoadLine(name) /\ ReachesReject(name)) =>
              LET sid   == GroupOf(name)
                  sizeR == Tree(name).size
                  over  == IF "SAFE" \in signatures[sid].flags
                           THEN sizeR > pSafeScores[sid]
                           ELSE sizeR > SigSize(sid) + 1
              IN  IF over THEN SizeRejected ELSE app'.skipSize = app.skipSize]_vars

\* C27 (amended): as above, but in the earlier form of the engine run with
\* --text=sql a SAFE signature is held to the rule of the unsafe ones
C27_SizeRejectUnlessSql ==
    [][\A name \in EarlierCandidates :
          (LoadLine(name) /\ ReachesReject(name)) =>
              LET sid   == GroupOf(name)
                  sizeR == Tree(name).size
                  sql   == generation = "earlier" /\ optText = "sql"
                  over  == IF "SAFE" \in signatures[sid].flags /\ ~sql
                           THEN sizeR > pSafeScores[sid]
                           ELSE sizeR > SigSize(sid) + 1
              IN  IF over THEN SizeRejected ELSE app'.skipSize = app.skipSize]_vars

\* size rejects were counted in an SQL run that holds a SAFE signature
C27_Witness ==
    /\ app.skipSize > 0
    /\ optText = "sql"
    /\ \E sid \in DOMAIN signatures : "SAFE" \in signatures[sid].flags

RECURSIVE Walk(_, _, _)
\* the member ids met following nextMember from mid
Walk(mem, mid, fuel) ==
    IF mid = 0 \/ fuel = 0 \/ mid \notin DOMAIN mem THEN {}
    ELSE {mid} \cup Walk(mem, mem[mid].nextMember, fuel - 1)

\* the candidate `name` wins as a safe candidate of an unsafe group that
\* holds members: the group is flushed
Promotes(name) ==
    /\ Challenged(name)
    /\ ~Probed(name).fatal
    /\ "SAFE" \notin signatures[GroupOf(name)].flags
    /\ "SAFE" \in Probed(name).m.flags
    /\ signatures[GroupOf(name)].firstMember # 0

\* the chain of the group before the call
OldChain(name) == Walk(members, signatures[GroupOf(name)].firstMember, store.numMember)

\* the tails and heads a member names after the call
RefsAfter(i) ==
    {RefMid(pairs', members'[i][f]) : f \in {"Qmt", "Tmt", "Fmt"}}
        \cup {members'[i].heads[k] : k \in 1..Len(members'[i].heads)}

\* what the claim says of the step that flushed the group for `name`: the
\* records of the old chain are zeroed and on the free list (but for the one
\* the new member took over), their names are not found, the chain is the
\* new member alone and no member names a record of the old chain
FlushedFor(name) ==
    LET sid == GroupOf(name)
        new == signatures'[sid].firstMember
        old == OldChain(name)
    IN  /\ new \in 1..(store'.numMember - 1)
        /\ members'[new].name = name
        /\ members'[new].nextMember = 0
        /\ \A mid \in old \ {new} :
              /\ [members'[mid] EXCEPT !.nextMember = 0] = EmptyMember
              /\ mid \in Walk(members', freeMemberRoot', store'.numMember)
        /\ \A mid \in old :
              members[mid].name # name =>
                  SlotMid(memberIndex',
                          lookupMember(members', memberIndex', members[mid].name)) <= 0
        /\ \A i \in 1..(store'.numMember - 1) : RefsAfter(i) \cap old = {}

\* C28 as stated: when a candidate promotes a group, every member of the
\* group's chain is freed (record zeroed, on the free list, not found by
\* name), the chain afterwards holds only the new member, and no member
\* keeps a tail or head reference to a freed member
C28_PromotionFlushes ==
    [][\A name \in Candidates :
          (LoadLine(name) /\ Promotes(name) /\ ~DiedInCall) => FlushedFor(name)]_vars

\* C28 (amended): the same for a build that is not read-only
C28_WritablePromotionFlushes ==
    [][\A name \in Candidates :
          (LoadLine(name) /\ Promotes(name) /\ ~DiedInCall /\ ~readOnlyMode)
              => FlushedFor(name)]_vars

\* a writable build after the flush of a chain of two: one record is left on
\* the free list and a SAFE group holds a single member
C28_Witness ==
    /\ ~readOnlyMode
    /\ epc = "load"
    /\ freeMemberRoot # 0
    /\ members[freeMemberRoot] = EmptyMember
    /\ \E sid \in DOMAIN signatures :
          /\ "SAFE" \in signatures[sid].flags
          /\ signatures[sid].firstMember # 0
          /\ members[signatures[sid].firstMember].nextMember = 0

\* the tails a member names before the call
TailRefs(i) == {RefMid(pairs, members[i][f]) : f \in {"Qmt", "Tmt", "Fmt"}}

AfterCall == epc \in {"load", "loaded", "zero", "generated"} /\ ret # "none"

\* the counters of the engine are what a fresh count of the signatures gives
CountersAgree ==
    /\ app.numEmpty = CountEmpty(signatures)
    /\ app.numUnsafe = CountUnsafe(signatures)

\* C30: after every call of foundTreeMember in a writable build numEmpty is
\* the number of signatures (id >= 1) with firstMember 0 and numUnsafe the
\* number of signatures without the SAFE flag
C30_CountersAgree == (AfterCall /\ ~readOnlyMode) => CountersAgree

\* a writable build after a call that flushed a group: a record is on the
\* free list, a group is SAFE and holds a member, another is still empty
C30_Witness ==
    /\ AfterCall /\ ~readOnlyMode
    /\ freeMemberRoot # 0
    /\ app.numUnsafe < Cardinality(DOMAIN signatures) - 1
    /\ app.numEmpty > 0
    /\ app.numEmpty < app.numUnsafe

\* the candidate `name` wins its challenge in the current state
Wins(name) ==
    /\ Challenged(name)
    /\ ~Probed(name).fatal
    /\ ~("SAFE" \in signatures[GroupOf(name)].flags /\ "SAFE" \notin Probed(name).m.flags)

\* what the claim says of the step that admitted `name`: the id is popped
\* from the free list (after a flush: from the records just freed) or is
\* the old numMember, the member heads the chain and the index names it
AdmittedAs(name) ==
    LET sid == GroupOf(name)
        new == signatures'[sid].firstMember
        mix == lookupMember(members, memberIndex, name)
    IN  /\ IF Promotes(name)
           THEN /\ new \in OldChain(name)
                /\ store'.numMember = store.numMember
                /\ members'[new].nextMember = 0
           ELSE /\ IF freeMemberRoot # 0
                   THEN /\ new = freeMemberRoot
                        /\ freeMemberRoot' = members[freeMemberRoot].nextMember
                        /\ store'.numMember = store.numMember
                   ELSE /\ new = store.numMember
                        /\ freeMemberRoot' = 0
                        /\ store'.numMember = store.numMember + 1
                /\ members'[new].nextMember = signatures[sid].firstMember
        /\ members'[new].name = name
        /\ members'[new].sid = sid
        /\ memberIndex'[mix] = new

RECURSIVE FreeEnds(_, _, _)
\* following nextMember from mid meets zeroed records only and ends at 0
FreeEnds(mem, mid, fuel) ==
    IF mid = 0 THEN TRUE
    ELSE IF fuel = 0 \/ mid \notin DOMAIN mem THEN FALSE
    ELSE /\ [mem[mid] EXCEPT !.nextMember = 0] = EmptyMember
         /\ FreeEnds(mem, mem[mid].nextMember, fuel - 1)

\* the free list is an acyclic chain of zeroed records that shares no record
\* with the chain of any group
FreeListSound ==
    /\ FreeEnds(members, freeMemberRoot, store.numMember)
    /\ \A sid \in DOMAIN signatures \ {0} :
          Walk(members, signatures[sid].firstMember, store.numMember)
              \cap Walk(members, freeMemberRoot, store.numMember) = {}

\* C31 as stated: an admission takes the member id from the free list when
\* that is not empty and appends at numMember otherwise, links the member at
\* the head of the chain of its signature and stores the id in the name
\* index; the free list is always an acyclic chain of zeroed records
\* disjoint from every group chain
C31_AdmitAndFreeList ==
    [][/\ \A name \in Candidates :
            (LoadLine(name) /\ Wins(name) /\ ~DiedInCall) => AdmittedAs(name)
       /\ FreeListSound']_vars

\* C31 (amended): the same for a build that is not read-only, the free list
\* being sound until finaliseMembers sorts the section
C31_WritableAdmitAndFreeList ==
    [][/\ \A name \in Candidates :
            (LoadLine(name) /\ Wins(name) /\ ~DiedInCall /\ ~readOnlyMode)
                => AdmittedAs(name)
       /\ epc' \in {"load", "loaded", "zero", "generated"} => FreeListSound']_vars

\* a writable build in which five admissions share three records: both
\* records a flush had freed were taken from the free list again
C31_Witness ==
    /\ ~readOnlyMode
    /\ epc = "load"
    /\ store.numMember = 4
    /\ freeMemberRoot = 0
    /\ Cardinality({ix \in DOMAIN memberIndex : memberIndex[ix] # 0}) = 5
    /\ \A i \in 1..3 : members[i].name # ""

RECURSIVE SizesAscend(_, _, _)
\* from member mid along nextMember no member is larger than the next one,
\* which was admitted before it
SizesAscend(mem, mid, fuel) ==
    IF mid = 0 \/ fuel = 0 \/ mid \notin DOMAIN mem THEN TRUE
    ELSE IF mem[mid].nextMember = 0 \/ mem[mid].nextMember \notin DOMAIN mem THEN TRUE
    ELSE /\ Tree(mem[mid].name).size <= Tree(mem[mem[mid].nextMember].name).size
         /\ SizesAscend(mem, mem[mid].nextMember, fuel - 1)

\* the chain of every SAFE group runs from the smallest member upwards
SafeChainsAscend ==
    \A sid \in DOMAIN signatures \ {0} :
        "SAFE" \in signatures[sid].flags =>
            SizesAscend(members, signatures[sid].firstMember, store.numMember)

EqualEarlierKeys(l, r) ==
    /\ l.sid # 0 /\ r.sid # 0
    /\ ("SAFE" \in l.flags) = ("SAFE" \in r.flags)
    /\ ("DEPR" \in l.flags) = ("DEPR" \in r.flags)

\* C33: comparMember is a strict lexicographic order: for any two members
\* compar(a, b) and compar(b, a) have opposite signs or are both 0, and a
\* COMPONENT member sorts before a member without COMPONENT that is equal on
\* the earlier keys
C33_ComparatorIsOrder ==
    \A i, j \in 1..(store.numMember - 1) :
        LET c == comparMember(members[i], members[j])
            d == comparMember(members[j], members[i])
        IN  /\ (c < 0) = (d > 0)
            /\ (c = 0) = (d = 0)
            /\ (/\ EqualEarlierKeys(members[i], members[j])
                /\ "COMP" \in members[i].flags
                /\ "COMP" \notin members[j].flags) => (c < 0 /\ d > 0)

\* members processed by the indexing loop before member j that belong to
\* the signature of member j
EarlierOfGroup(j) ==
    {i \in 1..(j - 1) : members[i].sid = members[j].sid}

\* C34: in finaliseMembers a member whose signature already received a
\* member is held to the group: a SAFE member that arrives for an unsafe
\* group promotes the group, and an unsafe member that arrives for a SAFE
\* group is not added to the group
C34_GroupConsistency ==
    epc = "finalised" =>
        \A j \in 1..(store.numMember - 1) :
            LET sid       == members[j].sid
                groupSafe == \E i \in EarlierOfGroup(j) : "SAFE" \in members[i].flags
            IN  EarlierOfGroup(j) # {} =>
                    /\ ("SAFE" \in members[j].flags /\ ~groupSafe)
                          => "SAFE" \in signatures[sid].flags
                    /\ ("SAFE" \notin members[j].flags /\ groupSafe)
                          => /\ j \notin Walk(members, signatures[sid].firstMember,
                                             store.numMember)
                             /\ \A ix \in DOMAIN memberIndex : memberIndex[ix] # j

\* the members that member j references through Q, T, F or a head
ComponentsOf(j) ==
    {PairMid(pairs, members[j][f]) :
        f \in {g \in {"Qmt", "Tmt", "Fmt"} : members[j][g] # 0}}
    \cup {members[j].heads[k] : k \in 1..Len(members[j].heads)}

\* C35: after finaliseMembers a member has COMPONENT exactly when a SAFE
\* member references it through Q, T, F or a head; a flag set in one round
\* of the scan is not cleared by a later round, the referenced member being
\* the member of the round or one before it
C35_ComponentFlags ==
    epc = "finalised" =>
        /\ \A i \in 1..(store.numMember - 1) :
              ("COMP" \in members[i].flags) =
                  (\E j \in 1..(store.numMember - 1) :
                      "SAFE" \in members[j].flags /\ i \in ComponentsOf(j))
        /\ \A j \in 1..(store.numMember - 1) :
              "SAFE" \in members[j].flags => \A t \in ComponentsOf(j) : t <= j

\* a finalised section where a SAFE member made components of two others
C35_Witness ==
    /\ epc = "finalised"
    /\ \E j \in 1..(store.numMember - 1) :
          /\ "SAFE" \in members[j].flags
          /\ Cardinality(ComponentsOf(j) \ {j}) >= 2
          /\ \A t \in ComponentsOf(j) : "COMP" \in members[t].flags
    /\ \E i \in 1..(store.numMember - 1) : "COMP" \notin members[i].flags

\* C36: after the sort and the truncation of finaliseMembers every member id
\* in 1 .. numMember-1 is a non-empty record with a non-zero sid, and after
\* the recount numEmpty is the number of signatures with firstMember = 0 and
\* numUnsafe the number of signatures without SAFE
C36_CompactAndRecount ==
    epc = "finalised" =>
        /\ \A i \in 1..(store.numMember - 1) :
              members[i].sid # 0 /\ members[i].name # ""
        /\ app.numEmpty =
              Cardinality({sid \in 1..(store.numSignature - 1) :
                              signatures[sid].firstMember = 0})
        /\ app.numUnsafe =
              Cardinality({sid \in 1..(store.numSignature - 1) :
                              "SAFE" \notin signatures[sid].flags})

\* a finalised section behind a flush: the sort met deleted records, and
\* both counts are above zero
C36_Witness ==
    /\ epc = "finalised"
    /\ freeMemberRoot # 0
    /\ store.numMember >= 3
    /\ app.numEmpty > 0
    /\ app.numUnsafe > app.numEmpty

\* occupancy of a data section, size of an index, in the input database d
\* or an output database st
NumOf(d, sec) ==
    CASE sec = "SIGNATURE" -> d.numSignature
      [] sec = "HINT"      -> d.numHint
      [] sec = "IMPRINT"   -> d.numImprint
      [] OTHER             -> d.numMember
SizeOf(d, isec) ==
    CASE isec = "SIGNATUREINDEX" -> d.signatureIndexSize
      [] isec = "HINTINDEX"      -> d.hintIndexSize
      [] isec = "IMPRINTINDEX"   -> d.imprintIndexSize
      [] OTHER                   -> d.memberIndexSize
DataOfIndex(isec) ==
    CASE isec = "SIGNATUREINDEX" -> "SIGNATURE"
      [] isec = "HINTINDEX"      -> "HINT"
      [] isec = "IMPRINTINDEX"   -> "IMPRINT"
      [] OTHER                   -> "MEMBER"

\* first applicable case when a rebuild is asked for before the input is
\* looked at
RebuildSecond(inh, reb, empty, fits) ==
    IF inh THEN "inherit" ELSE IF reb THEN "rebuild" ELSE IF empty THEN "empty"
    ELSE IF fits THEN "alias" ELSE "copy"

\* what case c asks of a data section before the call, and what it leaves in
\* the output database st
DataAsserts(c, sec) ==
    CASE c \in {"inherit", "alias"} -> sec \notin allocFlags
      [] c = "empty"   -> sec \in allocFlags
      [] c = "copy"    -> sec \in allocFlags /\ SectionSize(sec) >= NumOf(db, sec)
      [] OTHER         -> TRUE
DataEffect(c, sec, st) ==
    CASE c \in {"inherit", "alias", "copy"} -> NumOf(st, sec) = NumOf(db, sec)
      [] c = "empty"   -> NumOf(st, sec) = 1
      [] OTHER         -> NumOf(st, sec) = NumOf(store, sec)
IndexAsserts(c, isec) ==
    CASE c = "inherit" -> isec \notin allocFlags
      [] c = "alias"   -> isec \notin allocFlags /\ SizeOf(store, isec) = SizeOf(db, isec)
      [] c = "copy"    -> isec \in allocFlags /\ SizeOf(store, isec) = SizeOf(db, isec)
      [] OTHER         -> isec \in allocFlags
IndexEffect(c, isec, st) ==
    IF c \in {"inherit", "alias", "copy"}
    THEN SizeOf(st, isec) = SizeOf(db, isec)
    ELSE SizeOf(st, isec) = SizeOf(store, isec)

\* the case of a data section in the order Order, and of an index
DataIn(Order(_, _, _, _), sec) ==
    Order(sec \in inheritSections, sec \in rebuildSections, NumOf(db, sec) = 0,
          SectionSize(sec) <= NumOf(db, sec) /\ copyOnWrite)
IndexIn(isec) ==
    RebuildSecond(isec \in inheritSections, isec \in rebuildSections,
                  SizeOf(db, isec) = 0, copyOnWrite)

\* populateDatabaseSections() runs every section through the cases of Order:
\* it fails an assertion exactly when a case met does not find what it
\* asks, and otherwise leaves what the cases leave
PopulatesIn(Order(_, _, _, _)) ==
    LET dsecs == {sec \in DataSections : SectionSize(sec) # 0}
        isecs == {isec \in IndexSections : SectionSize(DataOfIndex(isec)) # 0}
        fine  == /\ \A sec \in dsecs : DataAsserts(DataIn(Order, sec), sec)
                 /\ \A isec \in isecs : IndexAsserts(IndexIn(isec), isec)
    IN  PopulateDatabaseSections =>
            /\ "TRANSFORM" \in inheritSections /\ "TRANSFORM" \notin allocFlags
                  => (ppc' = "populated") = fine
            /\ ppc' = "populated" =>
                  /\ \A sec \in dsecs : DataEffect(DataIn(Order, sec), sec, store')
                  /\ \A isec \in isecs : IndexEffect(IndexIn(isec), isec, store')

\* C37: for each section the populator takes the first applicable case of:
\* inherited (assert not owner-allocated, input pointer copied), to be
\* rebuilt (index cleared, data left empty), input empty (reserved entry
\* only), capacity fits and copy-on-write (aliased to the input), else
\* copied into owner-allocated memory with output.max >= input.num
C37_RebuildBeforeInput == [][PopulatesIn(RebuildSecond)]_vars

\* C38: in decodeSafe every dyadic operator, `<` included, pops two stack
\* entries and pushes one, and a notation whose only operator is `<`, such
\* as "ab<", ends with a stack of depth 1 and is accepted
C38_DyadicsLeaveOne ==
    [][/\ (DecodeChar /\ parse.mode = "safe") =>
            \A ch \in Dyadics :
                \A r \in decodeSafeChar(tree, treeFlags, parse, ch) :
                    (r.at = "parsing" /\ parse' = r.parse /\ tree' = r.tree)
                        => Len(parse'.stack) = Len(parse.stack) - 1
       /\ (/\ DecodeEnd /\ parse.mode = "safe" /\ tpc = "parsing"
           /\ \E r \in decodeSafeChar(
                        EmptyTree, treeFlags,
                        [StartParse("safe") EXCEPT
                            !.len = 2, !.stack = <<TINYTREE_KSTART, TINYTREE_KSTART + 1>>],
                        "<") : r.tree = tree /\ r.parse = parse)
              => (tpc' = "parsed" /\ Len(parse'.stack) = 1)]_vars

\* C39: every node id the append of basicNode handed out, from
\* TINYTREE_NSTART up to count - 1 and below TINYTREE_NEND, addresses an
\* element of the array N
C39_NodesInsideArray ==
    \A nid \in TINYTREE_NSTART..(tree.count - 1) :
        nid < TINYTREE_NEND /\ InArray(nid)

\* the nodes of the tree that normaliseQTF stored
StoredNodes ==
    IF parse.mode = "fast" THEN {}
    ELSE {NodeAt(tree, nid) : nid \in TINYTREE_NSTART..(tree.count - 1)}

\* C40: under MAGICMASK_QNTF every node normaliseQTF stores has its T
\* inverted, and in every stored OR (Q ? ~0 : F), XOR (Q ? ~F : F) and AND
\* (Q ? T : 0) node Q is smaller than the other operand
C40_QnTFAndDyadicOrder ==
    \A n \in StoredNodes :
        /\ treeFlags.qntf => IsInverted(n[2])
        /\ n[2] = IBIT => n[1] < n[3]
        /\ (IsInverted(n[2]) /\ n[2] # IBIT /\ NodeId(n[2]) = n[3]) => n[1] < n[3]
        /\ (~IsInverted(n[2]) /\ n[3] = 0) => n[1] < n[2]

====
